---------------------------- MODULE Spec2Model ----------------------------
(***************************************************************************)
(* A model of the hybrid transpiler's analysis pipeline: the IR and its    *)
(* type registry, the Transpiler driver object, the exception analyzer,    *)
(* the thread analyzer, the type / container / ownership mappers, the      *)
(* code generator's line writer and the command line program.              *)
(*                                                                         *)
(* C++ std::string values are TLA+ strings; a character is a string of     *)
(* length one, s[i] is SubSeq(s, i+1, i+1).  A null std::shared_ptr is the *)
(* record nullptr.  Each component has its own specification (SpecIR,      *)
(* SpecTranspiler, ...) over the one set of variables; the variables of    *)
(* the other components stay at their initial value.                       *)
(***************************************************************************)
EXTENDS Integers, Sequences, FiniteSets, TLC

VARIABLES
    ir,         \* SpecIR: the IR object (classes_, functions_, global_vars_, type_registry_)
    calls,      \* SpecIR: history of the calls made on ir (not program state)
    tr,         \* SpecTranspiler: the Transpiler object (options_, ir_, codegen_, last_error_)
    runs,       \* SpecTranspiler: history of the transpile calls (not program state)
    fn,         \* SpecException, SpecThread: the Function under analysis
    ex,         \* SpecException: passes made over fn, and the strategy last selected
    th,         \* SpecThread: passes the ThreadAnalyzer made over fn
    cd,         \* SpecClass: the ClassDecl under analysis
    cl,         \* SpecClass: passes made over cd, and whether cd changed since
    q,          \* SpecTypes: the last call of a mapper function, [op, arg, out, prev]
    cg,         \* SpecCodegen: the Program, the generator object and the texts returned
    cli         \* SpecMain: the command line given to main and how the process ended

vars == <<ir, calls, tr, runs, fn, ex, th, cd, cl, q, cg, cli>>

(***************************************************************************)
(* Bounds of the model.                                                    *)
(***************************************************************************)
MaxDecls == 2       \* longest classes_ / functions_ / global_vars_ list explored in SpecIR
MaxRuns == 3        \* most input files one Transpiler processes in SpecTranspiler
MaxBatch == 2       \* longest input_paths list of one transpileBatch call
MaxPasses == 2      \* most analysis passes made over one Function or ClassDecl
MaxFields == 3      \* longest fields list of the ClassDecl in SpecClass
MaxTokens == 3      \* most tokens between the outer angle brackets of a type string
MaxArgs == 4        \* most arguments on the command line in SpecMain

(***************************************************************************)
(* std::string helpers.                                                    *)
(***************************************************************************)
npos == -1

\* s[i] for a 0-based index i.
At(s, i) == SubSeq(s, i + 1, i + 1)

\* s.substr(pos) and s.substr(pos, n), 0-based.
SubstrFrom(s, pos) == SubSeq(s, pos + 1, Len(s))
Substr(s, pos, n) == SubSeq(s, pos + 1, IF pos + n > Len(s) THEN Len(s) ELSE pos + n)

\* Whether t occurs in s starting at 0-based index i.
OccursAt(s, t, i) == i + Len(t) <= Len(s) /\ SubSeq(s, i + 1, i + Len(t)) = t

\* s.find(t): the first 0-based index where t occurs, or npos.
Find(s, t) ==
    LET hits == {i \in 0..(Len(s) - Len(t)) : OccursAt(s, t, i)}
    IN  IF hits = {} THEN npos ELSE CHOOSE i \in hits : \A j \in hits : i <= j

\* s.rfind(t): the last 0-based index where t occurs, or npos.
RFind(s, t) ==
    LET hits == {i \in 0..(Len(s) - Len(t)) : OccursAt(s, t, i)}
    IN  IF hits = {} THEN npos ELSE CHOOSE i \in hits : \A j \in hits : i >= j

\* s.find_first_not_of(chars), s.find_last_not_of(chars): chars is a set of characters.
FindFirstNotOf(s, chars) ==
    LET hits == {i \in 0..(Len(s) - 1) : At(s, i) \notin chars}
    IN  IF hits = {} THEN npos ELSE CHOOSE i \in hits : \A j \in hits : i <= j

FindLastNotOf(s, chars) ==
    LET hits == {i \in 0..(Len(s) - 1) : At(s, i) \notin chars}
    IN  IF hits = {} THEN npos ELSE CHOOSE i \in hits : \A j \in hits : i >= j

(***************************************************************************)
(* std::regex (ECMAScript grammar): a backtracking matcher.  A pattern is  *)
(* a sequence of atoms, matched left to right; a repetition is greedy and  *)
(* gives characters back one at a time, an optional group is tried first   *)
(* with its body, an alternation tries its branches in order.  The first   *)
(* way to match wins, at the leftmost position where there is one.         *)
(***************************************************************************)
Lit(str) == [k |-> "lit", s |-> str]
Rep(cls, min, cap) == [k |-> "rep", cls |-> cls, min |-> min, cap |-> cap]
Opt(body) == [k |-> "opt", body |-> body]
Alt(alts, cap) == [k |-> "alt", alts |-> alts, cap |-> cap]

\* Whether the character c belongs to the class cls.
InClass(cls, c) ==
    CASE cls = "\\s" -> c \in {" ", "\t", "\n", "\r", "\f"}
      [] cls = "\\w" ->
            c \in {"a", "b", "c", "d", "e", "f", "g", "h", "i", "j", "k", "l", "m", "n", "o",
                   "p", "q", "r", "s", "t", "u", "v", "w", "x", "y", "z", "A", "B", "C", "D",
                   "E", "F", "G", "H", "I", "J", "K", "L", "M", "N", "O", "P", "Q", "R", "S",
                   "T", "U", "V", "W", "X", "Y", "Z", "0", "1", "2", "3", "4", "5", "6", "7",
                   "8", "9", "_"}
      [] cls = "[^}]" -> c # "}"
      [] cls = "[^)]" -> c # ")"
      [] cls = "[^>]" -> c # ">"

NoMatch == [ok |-> FALSE]

SetCap(caps, cap, str) ==
    IF cap = 0 THEN caps ELSE [caps EXCEPT ![cap] = [matched |-> TRUE, str |-> str]]

\* tries is a set of <<n, result>>: the result of the try with the largest n that
\* matched (a greedy repetition prefers to take more).
Longest(tries) ==
    LET oks == {t \in tries : t[2].ok}
    IN  IF oks = {} THEN NoMatch ELSE (CHOOSE t \in oks : \A u \in oks : t[1] >= u[1])[2]

\* tries is a set of <<p, result>>: the match at the smallest position p that has one.
Leftmost(tries) ==
    LET oks == {t \in tries : t[2].ok}
    IN  IF oks = {}
        THEN NoMatch
        ELSE LET t == CHOOSE t \in oks : \A u \in oks : t[1] <= u[1]
             IN  [ok |-> TRUE, begin |-> t[1], end |-> t[2].end, caps |-> t[2].caps]

RECURSIVE MatchFrom(_, _, _, _)
RECURSIVE TryRep(_, _, _, _, _)
RECURSIVE TryAlt(_, _, _, _, _, _)

\* Match the atoms re against s from position pos on.
MatchFrom(re, s, pos, caps) ==
    IF Len(re) = 0
    THEN [ok |-> TRUE, end |-> pos, caps |-> caps]
    ELSE LET a == Head(re)
             rest == Tail(re)
         IN  CASE a.k = "lit" ->
                    IF OccursAt(s, a.s, pos)
                    THEN MatchFrom(rest, s, pos + Len(a.s), caps)
                    ELSE NoMatch
               [] a.k = "rep" -> TryRep(a, rest, s, pos, caps)
               [] a.k = "opt" ->
                    LET taken == MatchFrom(a.body \o rest, s, pos, caps)
                    IN  IF taken.ok THEN taken ELSE MatchFrom(rest, s, pos, caps)
               [] a.k = "alt" -> TryAlt(a, 1, rest, s, pos, caps)

\* The repetition a takes the whole run of characters of its class from pos on (the
\* run stops at the first position that is the end of s or holds another character),
\* then fewer, down to a.min, until the rest of the pattern matches.
TryRep(a, rest, s, pos, caps) ==
    LET stops == {j \in pos..Len(s) : j = Len(s) \/ ~InClass(a.cls, At(s, j))}
    IN  Longest({<<n, MatchFrom(rest, s, pos + n, SetCap(caps, a.cap, Substr(s, pos, n)))>> :
                    n \in a.min..((CHOOSE j \in stops : \A k \in stops : j <= k) - pos)})

\* The alternation a tries its i-th branch, then the next ones.
TryAlt(a, i, rest, s, pos, caps) ==
    IF i > Len(a.alts)
    THEN NoMatch
    ELSE LET r == IF OccursAt(s, a.alts[i], pos)
                  THEN MatchFrom(rest, s, pos + Len(a.alts[i]), SetCap(caps, a.cap, a.alts[i]))
                  ELSE NoMatch
         IN  IF r.ok THEN r ELSE TryAlt(a, i + 1, rest, s, pos, caps)

\* std::regex_search(first, s.cend(), match, re) with first at position from:
\* begin/end delimit match[0], so match.suffix().first is end.
\* caps are the sub-matches 1..3; matched is false for a group that took no part.
regex_search(s, from, re) ==
    Leftmost({<<p, MatchFrom(re, s, p, [i \in 1..3 |-> [matched |-> FALSE, str |-> ""]])>> :
                p \in from..Len(s)})

\* std::regex_replace(s, re, fmt), the part of the result for s from position from on
\* (callers pass 0): every match, left to right, becomes fmt; the text between matches
\* is copied.  (No pattern replaced here matches the empty string.)
RECURSIVE regex_replace(_, _, _, _)
RECURSIVE regex_replace_match(_, _, _, _, _)
regex_replace(s, from, re, fmt) ==
    regex_replace_match(s, from, re, fmt, regex_search(s, from, re))

\* m is the next match at or after position from.
regex_replace_match(s, from, re, fmt, m) ==
    IF ~m.ok
    THEN SubstrFrom(s, from)
    ELSE Substr(s, from, m.begin - from) \o fmt \o regex_replace(s, m.end, re, fmt)

\* while (std::regex_search(search_start, s.cend(), match, re)) { ...;
\* search_start = match.suffix().first; } with search_start at position from (0 at
\* first): the sub-matches of the successive matches, in order.  m is the next match.
RECURSIVE AllMatches(_, _, _)
RECURSIVE AllMatchesNext(_, _, _)
AllMatches(s, from, re) == AllMatchesNext(s, re, regex_search(s, from, re))

AllMatchesNext(s, re, m) ==
    IF ~m.ok THEN <<>> ELSE <<m.caps>> \o AllMatches(s, m.end, re)

(***************************************************************************)
(* The IR data model (include/ir.h).                                       *)
(***************************************************************************)
nullptr == [kind |-> "nullptr"]

\* Type(TypeKind k): the other members take their default member initializers.
Type(k) == [kind |-> k, name |-> "", is_const |-> FALSE, size_bytes |-> 0, alignment |-> 0,
            element_type |-> nullptr, template_args |-> <<>>]

NamedType(k, n) == [Type(k) EXCEPT !.name = n]

\* IR() = default: empty collections, empty registry.
EmptyIR == [classes_ |-> <<>>, functions_ |-> <<>>, global_vars_ |-> <<>>,
            type_registry_ |-> <<>>]

\* A registry that keeps the first entry of a name (std::map::insert semantics).
registerType_keepFirst(r, name, type) ==
    IF name \in DOMAIN r.type_registry_
    THEN r
    ELSE [r EXCEPT !.type_registry_ =
            [n \in (DOMAIN r.type_registry_) \cup {name} |->
                IF n = name THEN type ELSE r.type_registry_[n]]]

\* type_registry_[name] = type: inserts the key or overwrites its value.
registerType(r, name, type) ==
    [r EXCEPT !.type_registry_ =
        [n \in (DOMAIN r.type_registry_) \cup {name} |->
            IF n = name THEN type ELSE r.type_registry_[n]]]

findType(r, name) ==
    IF name \in DOMAIN r.type_registry_ THEN r.type_registry_[name] ELSE nullptr

\* An addClass that appends the class and forgets to register its type.
addClass_unregistered(r, class_decl) ==
    [r EXCEPT !.classes_ = Append(@, class_decl)]

addClass(r, class_decl) ==
    LET pushed == [r EXCEPT !.classes_ = Append(@, class_decl)]
        type == NamedType("Class", class_decl.name)
    IN  registerType(pushed, class_decl.name, type)

addFunction(r, func) == [r EXCEPT !.functions_ = Append(@, func)]

addGlobalVariable(r, var) == [r EXCEPT !.global_vars_ = Append(@, var)]

(***************************************************************************)
(* The Transpiler object (src/transpiler.cpp).  The file system is the     *)
(* environment: env.readable says whether the input file opens, and        *)
(* env.writable whether the output file opens, at the time of the call.    *)
(***************************************************************************)
IntType == NamedType("Integer", "int")

\* The example class parseSourceFile builds for every input file.
point_class ==
    [name |-> "Point", is_struct |-> FALSE,
     fields |-> << [name |-> "x", type |-> IntType], [name |-> "y", type |-> IntType] >>,
     methods |-> << [name |-> "Point", is_constructor |-> TRUE, return_type |-> Type("Void"),
                     parameters |-> << [name |-> "x", type |-> IntType],
                                       [name |-> "y", type |-> IntType] >>] >>]

\* Transpiler(options): ir_ is made once, here; the generator follows options.target.
Transpiler(options) ==
    [options_ |-> options,
     ir_ |-> EmptyIR,
     codegen_ |-> IF options.target = "Rust" THEN "RustCodeGenerator"
                  ELSE IF options.target = "Go" THEN "GoCodeGenerator"
                  ELSE "nullptr",
     last_error_ |-> ""]

\* Results are [tr |-> the object after the call, ret |-> the value returned].
parseSourceFile(t, input_path, env) ==
    IF ~env.readable
    THEN [tr |-> [t EXCEPT !.last_error_ = "Failed to open input file: " \o input_path],
          ret |-> FALSE]
    ELSE [tr |-> [t EXCEPT !.ir_ = addClass(t.ir_, point_class)], ret |-> TRUE]

\* generated_from is the IR handed to codegen_->generate, nullptr when it is not called.
generateCode(t, output_path, env) ==
    IF t.codegen_ = "nullptr"
    THEN [tr |-> [t EXCEPT !.last_error_ = "Code generator not initialized"],
          ret |-> FALSE, generated_from |-> nullptr]
    ELSE IF ~env.writable
    THEN [tr |-> [t EXCEPT !.last_error_ = "Failed to open output file: " \o output_path],
          ret |-> FALSE, generated_from |-> t.ir_]
    ELSE [tr |-> t, ret |-> TRUE, generated_from |-> t.ir_]

\* The result carries run, the record of this call kept in the history.
transpile(t, input_path, env) ==
    LET parsed == parseSourceFile(t, input_path, env)
        gen == generateCode(parsed.tr, t.options_.output_path, env)
    IN  IF ~parsed.ret
        THEN [tr |-> parsed.tr, ret |-> FALSE,
              run |-> [input_path |-> input_path, ret |-> FALSE, built |-> <<>>,
                       generated_from |-> nullptr]]
        ELSE [tr |-> gen.tr, ret |-> gen.ret,
              run |-> [input_path |-> input_path, ret |-> gen.ret, built |-> <<point_class>>,
                       generated_from |-> gen.generated_from]]

\* The loop over input_paths, stopping at the first file that fails; envs[i] is the
\* file system at the time of the i-th file.  The result carries the runs made.
RECURSIVE transpileBatchFrom(_, _, _, _)
transpileBatchFrom(t, input_paths, envs, i) ==
    IF i > Len(input_paths)
    THEN [tr |-> t, ret |-> TRUE, runs |-> <<>>]
    ELSE LET one == transpile(t, input_paths[i], envs[i])
         IN  IF ~one.ret
             THEN [tr |-> one.tr, ret |-> FALSE, runs |-> <<one.run>>]
             ELSE LET rest == transpileBatchFrom(one.tr, input_paths, envs, i + 1)
                  IN  [tr |-> rest.tr, ret |-> rest.ret, runs |-> <<one.run>> \o rest.runs]

transpileBatch(t, input_paths, envs) == transpileBatchFrom(t, input_paths, envs, 1)

(***************************************************************************)
(* Function and its analysis annotations.  The declarations of the         *)
(* annotation members are not part of the sources at hand; a fresh         *)
(* Function has empty inventories and cleared flags, except that           *)
(* exception_spec.can_throw starts at the value given (both are explored). *)
(***************************************************************************)
Function(name, body, can_throw) ==
    [name |-> name, body |-> body,
     try_catch_blocks |-> <<>>,
     exception_spec |-> [is_noexcept |-> FALSE, can_throw |-> can_throw],
     may_throw |-> FALSE,
     threads_created |-> <<>>, lock_scopes |-> <<>>, atomic_operations |-> <<>>,
     condition_variables |-> <<>>, uses_threading |-> FALSE]

\* A fresh ClassDecl: no members, empty synchronization inventory.
ClassDecl(name) ==
    [name |-> name, is_struct |-> FALSE, fields |-> <<>>, methods |-> <<>>,
     mutexes |-> <<>>, atomic_fields |-> <<>>, thread_safe |-> FALSE]

(***************************************************************************)
(* ExceptionAnalyzer.                                                      *)
(***************************************************************************)
\* str.erase(0, str.find_first_not_of(" \t\n")); str.erase(str.find_last_not_of(" \t\n") + 1);
\* erase(0, npos) erases all; erase(npos + 1) erases from 0 (size_t wraps).
TrimErase(str) ==
    LET front == IF FindFirstNotOf(str, {" ", "\t", "\n"}) = npos
                 THEN ""
                 ELSE SubstrFrom(str, FindFirstNotOf(str, {" ", "\t", "\n"}))
    IN  Substr(front, 0, FindLastNotOf(front, {" ", "\t", "\n"}) + 1)

\* The split of cleaned at last_space = cleaned.find_last_of(' ') (the last index of
\* the one character), and the two trims.
splitCleaned(cleaned) ==
    LET last_space == RFind(cleaned, " ")
    IN  IF last_space # npos
        THEN [type |-> TrimErase(Substr(cleaned, 0, last_space)),
              var |-> TrimErase(SubstrFrom(cleaned, last_space + 1))]
        ELSE [type |-> TrimErase(cleaned), var |-> TrimErase("e")]

\* A parseCatchParameter without the early return for the catch-all parameter.
parseCatchParameter_noCatchAll(param) == splitCleaned(param)

\* The result is [type |-> exception_type, var |-> exception_var].  The patterns
\* replaced are R"(\s*const\s*)", R"(\s*&\s*)" and R"(\s+)".
parseCatchParameter(param) ==
    IF param = "..."
    THEN [type |-> "...", var |-> ""]
    ELSE splitCleaned(
            regex_replace(
                regex_replace(
                    regex_replace(param, 0,
                        << Rep("\\s", 0, 0), Lit("const"), Rep("\\s", 0, 0) >>, " "),
                    0, << Rep("\\s", 0, 0), Lit("&"), Rep("\\s", 0, 0) >>, " "),
                0, << Rep("\\s", 1, 0) >>, " "))

\* One iteration's TryCatchBlock, from the sub-matches and the parsed parameter.
tryCatchBlock(caps, parsed) ==
    [try_body |-> caps[1].str,
     catch_clauses |-> << [exception_type |-> parsed.type, exception_var |-> parsed.var,
                           handler_body |-> caps[3].str] >>]

\* The blocks the while loop of detectTryCatchBlocks pushes, one per match.
tryCatchBlocks(matches) ==
    [i \in 1..Len(matches) |->
        tryCatchBlock(matches[i], parseCatchParameter(matches[i][2].str))]

\* try_catch_pattern is R"(try\s*\{([^}]*)\}\s*catch\s*\(([^)]+)\)\s*\{([^}]*)\})".
detectTryCatchBlocks(func) ==
    [func EXCEPT !.try_catch_blocks =
        @ \o tryCatchBlocks(AllMatches(func.body, 0,
                << Lit("try"), Rep("\\s", 0, 0), Lit("{"), Rep("[^}]", 0, 1), Lit("}"),
                   Rep("\\s", 0, 0), Lit("catch"), Rep("\\s", 0, 0), Lit("("),
                   Rep("[^)]", 1, 2), Lit(")"), Rep("\\s", 0, 0), Lit("{"),
                   Rep("[^}]", 0, 3), Lit("}") >>))]

\* A detectThrowStatements that leaves the flag as the specification gave it.
detectThrowStatements_keepSpec(func) == func

\* throw_pattern is R"(throw\s+)".
detectThrowStatements(func) ==
    IF regex_search(func.body, 0, << Lit("throw"), Rep("\\s", 1, 0) >>).ok
    THEN [func EXCEPT !.exception_spec.can_throw = TRUE]
    ELSE func

containsThrowStatement(body) == Find(body, "throw ") # npos

analyzeExceptionSpec(func) ==
    IF Find(func.name, "noexcept") # npos
    THEN [func EXCEPT !.exception_spec.is_noexcept = TRUE, !.exception_spec.can_throw = FALSE]
    ELSE func

\* A may_throw that only repeats the exception specification.
setMayThrow_specOnly(func) == [func EXCEPT !.may_throw = func.exception_spec.can_throw]

\* func.may_throw = can_throw || !try_catch_blocks.empty() || containsThrowStatement(body)
setMayThrow(func) ==
    [func EXCEPT !.may_throw = \/ func.exception_spec.can_throw
                               \/ func.try_catch_blocks # <<>>
                               \/ containsThrowStatement(func.body)]

ExceptionAnalyzer_analyzeFunction(func) ==
    setMayThrow(analyzeExceptionSpec(detectThrowStatements(detectTryCatchBlocks(func))))

(***************************************************************************)
(* ExceptionStrategySelector.                                              *)
(***************************************************************************)
\* A selector without the branch for noexcept functions that handle internally.
selectStrategy_noNoexceptBranch(func, target_lang) ==
    IF ~func.may_throw /\ func.try_catch_blocks = <<>>
    THEN "Ignore"
    ELSE IF func.may_throw
    THEN (IF target_lang = "rust" THEN "ResultType" ELSE "ErrorReturn")
    ELSE "Ignore"

selectStrategy(func, target_lang) ==
    IF ~func.may_throw /\ func.try_catch_blocks = <<>>
    THEN "Ignore"
    ELSE IF func.exception_spec.is_noexcept /\ func.try_catch_blocks # <<>>
    THEN (IF target_lang = "rust" THEN "ResultType" ELSE "ErrorReturn")
    ELSE IF func.may_throw
    THEN (IF target_lang = "rust" THEN "ResultType" ELSE "ErrorReturn")
    ELSE "Ignore"

(***************************************************************************)
(* ExceptionTypeMapper.                                                    *)
(***************************************************************************)
\* static const std::map<std::string, std::string> exception_map
exception_map ==
    [n \in {"std::exception"} |-> "Standard exception"] @@
    [n \in {"std::runtime_error"} |-> "Runtime error"] @@
    [n \in {"std::logic_error"} |-> "Logic error"] @@
    [n \in {"std::invalid_argument"} |-> "Invalid argument"] @@
    [n \in {"std::out_of_range"} |-> "Out of range"] @@
    [n \in {"std::overflow_error"} |-> "Overflow error"] @@
    [n \in {"std::underflow_error"} |-> "Underflow error"] @@
    [n \in {"std::range_error"} |-> "Range error"] @@
    [n \in {"std::bad_alloc"} |-> "Memory allocation failed"] @@
    [n \in {"std::bad_cast"} |-> "Bad cast"] @@
    [n \in {"std::bad_typeid"} |-> "Bad typeid"] @@
    [n \in {"std::ios_base::failure"} |-> "I/O error"] @@
    [n \in {"..."} |-> "Unknown error"]

getRustErrorType(exception_type) ==
    IF exception_type = "std::exception" \/ exception_type = "std::runtime_error"
    THEN "Box<dyn std::error::Error>"
    ELSE IF exception_type = "std::invalid_argument" THEN "std::io::Error"
    ELSE IF exception_type = "..." THEN "Box<dyn std::error::Error>"
    ELSE "String"

getGoErrorType(exception_type) == "error"

(***************************************************************************)
(* ThreadAnalyzer.  ThreadInfo, LockInfo, AtomicInfo, MutexInfo and        *)
(* ConditionVariableInfo are declared outside the sources at hand: a new   *)
(* ThreadInfo is taken to be joinable and not detached, a new AtomicInfo   *)
(* to have no value type and no operations.                                *)
(***************************************************************************)
\* trim (the same code in ThreadAnalyzer and in STLContainerMapper).
trim(str) ==
    LET first == FindFirstNotOf(str, {" ", "\t", "\n", "\r"})
        last == FindLastNotOf(str, {" ", "\t", "\n", "\r"})
    IN  IF first = npos THEN "" ELSE Substr(str, first, last - first + 1)

\* if (!trimmed.empty()) arguments.push_back(trimmed);
pushNonEmpty(arguments, trimmed) ==
    IF trimmed = "" THEN arguments ELSE Append(arguments, trimmed)

\* One iteration of the loop of parseArguments over the character c.
parseArgumentsChar(st, c) ==
    CASE c \in {"(", "{"} -> [st EXCEPT !.paren_depth = @ + 1, !.current_arg = @ \o c]
      [] c \in {")", "}"} -> [st EXCEPT !.paren_depth = @ - 1, !.current_arg = @ \o c]
      [] c = "[" -> [st EXCEPT !.bracket_depth = @ + 1, !.current_arg = @ \o c]
      [] c = "]" -> [st EXCEPT !.bracket_depth = @ - 1, !.current_arg = @ \o c]
      [] c = "," /\ st.paren_depth = 0 /\ st.bracket_depth = 0 ->
            [st EXCEPT !.arguments = pushNonEmpty(@, trim(st.current_arg)),
                       !.current_arg = ""]
      [] OTHER -> [st EXCEPT !.current_arg = @ \o c]

RECURSIVE parseArgumentsFrom(_, _, _)
parseArgumentsFrom(args_str, i, st) ==
    IF i >= Len(args_str)
    THEN pushNonEmpty(st.arguments, trim(st.current_arg))
    ELSE parseArgumentsFrom(args_str, i + 1, parseArgumentsChar(st, At(args_str, i)))

parseArguments(args_str, arguments) ==
    IF args_str = ""
    THEN arguments
    ELSE parseArgumentsFrom(args_str, 0,
            [current_arg |-> "", paren_depth |-> 0, bracket_depth |-> 0,
             arguments |-> arguments])

\* The ThreadInfos a search loop of detectThreadCreation pushes, one per match.
threadInfos(matches) ==
    [i \in 1..Len(matches) |->
        [thread_var_name |-> matches[i][1].str, function_name |-> matches[i][2].str,
         arguments |-> IF matches[i][3].matched
                       THEN parseArguments(matches[i][3].str, <<>>)
                       ELSE <<>>,
         detached |-> FALSE, joinable |-> TRUE]]

\* The index of the first record of infos whose field key is name, or 0.
firstNamed(infos, key, name) ==
    LET hits == {i \in 1..Len(infos) : infos[i][key] = name}
    IN  IF hits = {} THEN 0 ELSE CHOOSE i \in hits : \A j \in hits : i <= j

\* A detach that marks the thread detached and leaves it joinable.
markDetached_stillJoinable(threads, i) ==
    IF i = 0 THEN threads ELSE [threads EXCEPT ![i].detached = TRUE]

\* for (auto& thread : threads) if (thread.thread_var_name == thread_var) { ...; break; }
\* with i the index of that thread, or 0.
markDetached(threads, i) ==
    IF i = 0 THEN threads ELSE [threads EXCEPT ![i].detached = TRUE, ![i].joinable = FALSE]

\* The detach loop from its k-th match on.
RECURSIVE detachFrom(_, _, _)
detachFrom(threads, matches, k) ==
    IF k > Len(matches)
    THEN threads
    ELSE detachFrom(
            markDetached(threads, firstNamed(threads, "thread_var_name", matches[k][1].str)),
            matches, k + 1)

\* The patterns, in the order searched:
\* thread_pattern1 R"(std::thread\s+(\w+)\s*\(\s*(\w+)\s*(?:,\s*([^)]*))?\))"
\* thread_pattern2 R"(std::thread\s+(\w+)\s*\{\s*(\w+)\s*(?:,\s*([^}]*))?\})"
\* thread_pattern3
\*   R"((?:auto|std::thread)\s+(\w+)\s*=\s*std::thread\s*\(\s*(\w+)\s*(?:,\s*([^)]*))?\))"
\* detach_pattern R"((\w+)\.detach\s*\(\))"
detectThreadCreation(func) ==
    [func EXCEPT !.threads_created =
        detachFrom(
            @ \o threadInfos(AllMatches(func.body, 0,
                    << Lit("std::thread"), Rep("\\s", 1, 0), Rep("\\w", 1, 1),
                       Rep("\\s", 0, 0), Lit("("), Rep("\\s", 0, 0), Rep("\\w", 1, 2),
                       Rep("\\s", 0, 0),
                       Opt(<< Lit(","), Rep("\\s", 0, 0), Rep("[^)]", 0, 3) >>), Lit(")") >>))
              \o threadInfos(AllMatches(func.body, 0,
                    << Lit("std::thread"), Rep("\\s", 1, 0), Rep("\\w", 1, 1),
                       Rep("\\s", 0, 0), Lit("{"), Rep("\\s", 0, 0), Rep("\\w", 1, 2),
                       Rep("\\s", 0, 0),
                       Opt(<< Lit(","), Rep("\\s", 0, 0), Rep("[^}]", 0, 3) >>), Lit("}") >>))
              \o threadInfos(AllMatches(func.body, 0,
                    << Alt(<<"auto", "std::thread">>, 0), Rep("\\s", 1, 0), Rep("\\w", 1, 1),
                       Rep("\\s", 0, 0), Lit("="), Rep("\\s", 0, 0), Lit("std::thread"),
                       Rep("\\s", 0, 0), Lit("("), Rep("\\s", 0, 0), Rep("\\w", 1, 2),
                       Rep("\\s", 0, 0),
                       Opt(<< Lit(","), Rep("\\s", 0, 0), Rep("[^)]", 0, 3) >>), Lit(")") >>)),
            AllMatches(func.body, 0,
                << Rep("\\w", 1, 1), Lit(".detach"), Rep("\\s", 0, 0), Lit("()") >>),
            1)]

\* R"(std::lock_guard<[^>]+>\s+(\w+)\s*\(\s*(\w+)\s*\))", and the same for
\* std::unique_lock and std::shared_lock.
lock_pattern(guard) ==
    << Lit("std::" \o guard \o "<"), Rep("[^>]", 1, 0), Lit(">"), Rep("\\s", 1, 0),
       Rep("\\w", 1, 1), Rep("\\s", 0, 0), Lit("("), Rep("\\s", 0, 0), Rep("\\w", 1, 2),
       Rep("\\s", 0, 0), Lit(")") >>

lockInfos(type, matches) ==
    [i \in 1..Len(matches) |->
        [type |-> type, lock_var_name |-> matches[i][1].str, mutex_name |-> matches[i][2].str]]

detectMutexUsage(func) ==
    [func EXCEPT !.lock_scopes =
        @ \o lockInfos("LockGuard", AllMatches(func.body, 0, lock_pattern("lock_guard")))
          \o lockInfos("UniqueLock", AllMatches(func.body, 0, lock_pattern("unique_lock")))
          \o lockInfos("SharedLock", AllMatches(func.body, 0, lock_pattern("shared_lock")))]

\* The AtomicInfos the declaration loop of detectAtomicOperations pushes.
atomicInfos(matches) ==
    [i \in 1..Len(matches) |->
        [atomic_var_name |-> matches[i][2].str,
         value_type |-> NamedType("Integer", matches[i][1].str), operations |-> <<>>]]

\* A loop that never finds the record of the variable and makes a new one each time.
recordOperation_alwaysNew(infos, i, fresh, ops, operation) ==
    Append(infos, [fresh EXCEPT ![ops] = <<operation>>])

\* Find or create: the operation goes to the first record named var (its index is i),
\* or to a new record made from fresh when there is none.
recordOperation(infos, i, fresh, ops, operation) ==
    IF i # 0
    THEN [infos EXCEPT ![i][ops] = Append(@, operation)]
    ELSE Append(infos, [fresh EXCEPT ![ops] = <<operation>>])

\* The operation loop of detectAtomicOperations / detectConditionVariables from its
\* k-th match on: key and ops name the record's name field and operation list.
RECURSIVE operationsFrom(_, _, _, _, _, _)
operationsFrom(infos, matches, k, fresh, key, ops) ==
    IF k > Len(matches)
    THEN infos
    ELSE operationsFrom(
            recordOperation(infos, firstNamed(infos, key, matches[k][1].str),
                            [fresh EXCEPT ![key] = matches[k][1].str], ops, matches[k][2].str),
            matches, k + 1, fresh, key, ops)

\* atomic_pattern is R"(std::atomic<([^>]+)>\s+(\w+))", atomic_op_pattern is R"((\w+)\.
\* (load|store|fetch_add|fetch_sub|exchange|compare_exchange_weak|compare_exchange_strong)\s*\()".
detectAtomicOperations(func) ==
    [func EXCEPT !.atomic_operations =
        operationsFrom(@ \o atomicInfos(AllMatches(func.body, 0,
                            << Lit("std::atomic<"), Rep("[^>]", 1, 1), Lit(">"),
                               Rep("\\s", 1, 0), Rep("\\w", 1, 2) >>)),
                       AllMatches(func.body, 0,
                            << Rep("\\w", 1, 1), Lit("."),
                               Alt(<<"load", "store", "fetch_add", "fetch_sub", "exchange",
                                     "compare_exchange_weak", "compare_exchange_strong">>, 2),
                               Rep("\\s", 0, 0), Lit("(") >>),
                       1,
                       [atomic_var_name |-> "", value_type |-> nullptr, operations |-> <<>>],
                       "atomic_var_name", "operations")]

\* The ConditionVariableInfos the declaration loop of detectConditionVariables pushes.
cvInfos(matches) ==
    [i \in 1..Len(matches) |-> [cv_var_name |-> matches[i][1].str, wait_conditions |-> <<>>]]

\* cv_pattern is R"(std::condition_variable\s+(\w+))", cv_op_pattern is
\* R"((\w+)\.(wait|notify_one|notify_all|wait_for|wait_until)\s*\()".
detectConditionVariables(func) ==
    [func EXCEPT !.condition_variables =
        operationsFrom(@ \o cvInfos(AllMatches(func.body, 0,
                            << Lit("std::condition_variable"), Rep("\\s", 1, 0),
                               Rep("\\w", 1, 1) >>)),
                       AllMatches(func.body, 0,
                            << Rep("\\w", 1, 1), Lit("."),
                               Alt(<<"wait", "notify_one", "notify_all", "wait_for",
                                     "wait_until">>, 2),
                               Rep("\\s", 0, 0), Lit("(") >>),
                       1,
                       [cv_var_name |-> "", wait_conditions |-> <<>>],
                       "cv_var_name", "wait_conditions")]

\* func.uses_threading = !threads_created.empty() || !lock_scopes.empty() || ...
setUsesThreading(func) ==
    [func EXCEPT !.uses_threading = \/ func.threads_created # <<>>
                                    \/ func.lock_scopes # <<>>
                                    \/ func.atomic_operations # <<>>
                                    \/ func.condition_variables # <<>>]

ThreadAnalyzer_analyzeFunction(func) ==
    setUsesThreading(
        detectConditionVariables(
            detectAtomicOperations(detectMutexUsage(detectThreadCreation(func)))))

\* The loop of detectMutexMembers from the i-th field on.
RECURSIVE detectMutexMembersFrom(_, _, _)
detectMutexMembersFrom(fields, i, mutexes) ==
    IF i > Len(fields)
    THEN mutexes
    ELSE detectMutexMembersFrom(fields, i + 1,
            IF fields[i].type.kind = "StdMutex"
            THEN Append(mutexes, [type |-> "Mutex", mutex_var_name |-> fields[i].name])
            ELSE IF fields[i].type.kind = "StdRecursiveMutex"
            THEN Append(mutexes, [type |-> "RecursiveMutex", mutex_var_name |-> fields[i].name])
            ELSE IF fields[i].type.kind = "StdSharedMutex"
            THEN Append(mutexes, [type |-> "SharedMutex", mutex_var_name |-> fields[i].name])
            ELSE mutexes)

\* A detectMutexMembers that recognizes std::mutex fields only.
detectMutexMembers_plainOnly(class_decl) ==
    [class_decl EXCEPT !.mutexes =
        detectMutexMembersFrom(
            SelectSeq(class_decl.fields, LAMBDA f : f.type.kind = "StdMutex"), 1, @)]

detectMutexMembers(class_decl) ==
    [class_decl EXCEPT !.mutexes = detectMutexMembersFrom(class_decl.fields, 1, @)]

\* The loop of detectAtomicMembers from the i-th field on.
RECURSIVE detectAtomicMembersFrom(_, _, _)
detectAtomicMembersFrom(fields, i, atomic_fields) ==
    IF i > Len(fields)
    THEN atomic_fields
    ELSE detectAtomicMembersFrom(fields, i + 1,
            IF fields[i].type.kind = "StdAtomic"
            THEN Append(atomic_fields,
                        [atomic_var_name |-> fields[i].name,
                         value_type |-> fields[i].type.element_type, operations |-> <<>>])
            ELSE atomic_fields)

detectAtomicMembers(class_decl) ==
    [class_decl EXCEPT !.atomic_fields = detectAtomicMembersFrom(class_decl.fields, 1, @)]

\* class_decl.thread_safe = !mutexes.empty() || !atomic_fields.empty()
setThreadSafe(class_decl) ==
    [class_decl EXCEPT !.thread_safe = class_decl.mutexes # <<>> \/ class_decl.atomic_fields # <<>>]

ThreadAnalyzer_analyzeClass(class_decl) ==
    setThreadSafe(detectAtomicMembers(detectMutexMembers(class_decl)))

(***************************************************************************)
(* TypeMapper, MemoryPatternAnalyzer and STLContainerMapper.               *)
(***************************************************************************)
\* static const std::map<std::string, TypeKind> builtin_map
builtin_map ==
    [n \in {"void"} |-> "Void"] @@ [n \in {"bool"} |-> "Bool"] @@
    [n \in {"char", "short", "int", "long", "long long", "unsigned char", "unsigned short",
            "unsigned int", "unsigned long", "unsigned long long", "int8_t", "int16_t",
            "int32_t", "int64_t", "uint8_t", "uint16_t", "uint32_t", "uint64_t", "size_t"}
        |-> "Integer"] @@
    [n \in {"float", "double"} |-> "Float"]

\* static const std::map<std::string, size_t> size_map
size_map ==
    [n \in {"void"} |-> 0] @@
    [n \in {"bool", "char", "unsigned char", "int8_t", "uint8_t"} |-> 1] @@
    [n \in {"short", "unsigned short", "int16_t", "uint16_t"} |-> 2] @@
    [n \in {"int", "unsigned int", "int32_t", "uint32_t", "float"} |-> 4] @@
    [n \in {"long", "long long", "unsigned long", "unsigned long long", "int64_t", "uint64_t",
            "size_t", "double"} |-> 8]

getSizeForType(type_name) ==
    IF type_name \in DOMAIN size_map THEN size_map[type_name] ELSE 0

\* A mapBuiltinType that leaves the size of the new Type at its default.
mapBuiltinType_unsized(cpp_type) ==
    IF cpp_type \in DOMAIN builtin_map
    THEN [Type(builtin_map[cpp_type]) EXCEPT !.name = cpp_type]
    ELSE nullptr

mapBuiltinType(cpp_type) ==
    IF cpp_type \in DOMAIN builtin_map
    THEN [Type(builtin_map[cpp_type]) EXCEPT !.name = cpp_type,
                                             !.size_bytes = getSizeForType(cpp_type),
                                             !.alignment = getSizeForType(cpp_type)]
    ELSE nullptr

\* sizeof(void*) of the 64-bit build, the one whose size_t has the 8 bytes of size_map.
sizeof_pointer == 8

\* std::make_shared<Type>(...): a heap is the sequence of the Type objects alive, a
\* shared_ptr<Type> is nullptr or the address (index) of one of them; the new object
\* gets a fresh address, the objects already there stay where and what they are.
make_shared(heap, obj) ==
    [heap |-> Append(heap, obj), ptr |-> [kind |-> "shared_ptr", addr |-> Len(heap) + 1]]

\* std::to_string(size_t).
RECURSIVE to_string(_)
to_string(n) ==
    IF n < 10 THEN <<"0", "1", "2", "3", "4", "5", "6", "7", "8", "9">>[n + 1]
    ELSE to_string(n \div 10) \o to_string(n % 10)

\* A mapPointerType that points the new Type at a copy of the pointee.
mapPointerType_copying(heap, pointee) ==
    IF pointee = nullptr
    THEN make_shared(heap, [Type("Pointer") EXCEPT !.size_bytes = sizeof_pointer,
                                                   !.alignment = sizeof_pointer])
    ELSE make_shared(Append(heap, heap[pointee.addr]),
                     [Type("Pointer") EXCEPT
                        !.element_type = [kind |-> "shared_ptr", addr |-> Len(heap) + 1],
                        !.size_bytes = sizeof_pointer,
                        !.alignment = sizeof_pointer,
                        !.name = heap[pointee.addr].name \o "*"])

mapPointerType(heap, pointee) ==
    make_shared(heap,
        [Type("Pointer") EXCEPT
            !.element_type = pointee,
            !.size_bytes = sizeof_pointer,
            !.alignment = sizeof_pointer,
            !.name = IF pointee # nullptr THEN heap[pointee.addr].name \o "*" ELSE ""])

mapReferenceType(heap, referred, is_const) ==
    make_shared(heap,
        [Type("Reference") EXCEPT
            !.element_type = referred,
            !.is_const = is_const,
            !.size_bytes = sizeof_pointer,
            !.alignment = sizeof_pointer,
            !.name = IF referred # nullptr THEN heap[referred.addr].name \o "&" ELSE ""])

\* size_t arithmetic; the counts of declarable arrays keep the product below 2^64.
mapArrayType(heap, element, count) ==
    make_shared(heap,
        IF element # nullptr
        THEN [Type("Array") EXCEPT
                !.element_type = element,
                !.size_bytes = heap[element.addr].size_bytes * count,
                !.alignment = heap[element.addr].alignment,
                !.name = heap[element.addr].name \o "[" \o to_string(count) \o "]"]
        ELSE Type("Array"))

mapSmartPointer(heap, smart_ptr_name, element) ==
    make_shared(heap,
        [Type("Pointer") EXCEPT
            !.name = smart_ptr_name,
            !.element_type = element,
            !.size_bytes = sizeof_pointer,
            !.alignment = sizeof_pointer])

\* An analyzePointerPattern that takes every reference for a shared borrow.
analyzePointerPattern_constBlind(type) ==
    IF type = nullptr THEN "ValueSemantics"
    ELSE IF type.kind = "Pointer"
    THEN (IF Find(type.name, "unique_ptr") # npos THEN "UniqueOwnership"
          ELSE IF Find(type.name, "shared_ptr") # npos THEN "SharedOwnership"
          ELSE "RawPointer")
    ELSE IF type.kind = "Reference" THEN "BorrowedReference"
    ELSE "ValueSemantics"

analyzePointerPattern(type) ==
    IF type = nullptr THEN "ValueSemantics"
    ELSE IF type.kind = "Pointer"
    THEN (IF Find(type.name, "unique_ptr") # npos THEN "UniqueOwnership"
          ELSE IF Find(type.name, "shared_ptr") # npos THEN "SharedOwnership"
          ELSE "RawPointer")
    ELSE IF type.kind = "Reference"
    THEN (IF type.is_const THEN "BorrowedReference" ELSE "MutableBorrow")
    ELSE "ValueSemantics"

\* An iteration that splits at every comma, whatever the nesting depth.
extractTemplateArgsChar_flat(st, args_str, i) ==
    IF At(args_str, i) = ","
    THEN [st EXCEPT !.args = pushNonEmpty(@, trim(Substr(args_str, st.last, i - st.last))),
                    !.last = i + 1]
    ELSE st

\* One iteration of the loop of extractTemplateArgs at index i of args_str.
extractTemplateArgsChar(st, args_str, i) ==
    IF At(args_str, i) = "<" THEN [st EXCEPT !.depth = @ + 1]
    ELSE IF At(args_str, i) = ">" THEN [st EXCEPT !.depth = @ - 1]
    ELSE IF At(args_str, i) = "," /\ st.depth = 0
    THEN [st EXCEPT !.args = pushNonEmpty(@, trim(Substr(args_str, st.last, i - st.last))),
                    !.last = i + 1]
    ELSE st

\* The loop from index i on, then the last argument.
RECURSIVE extractTemplateArgsFrom(_, _, _)
extractTemplateArgsFrom(args_str, i, st) ==
    IF i >= Len(args_str)
    THEN pushNonEmpty(st.args, trim(SubstrFrom(args_str, st.last)))
    ELSE extractTemplateArgsFrom(args_str, i + 1, extractTemplateArgsChar(st, args_str, i))

extractTemplateArgs(type_str) ==
    LET start == Find(type_str, "<")
        end == RFind(type_str, ">")
    IN  IF start = npos \/ end = npos \/ start >= end
        THEN <<>>
        ELSE extractTemplateArgsFrom(Substr(type_str, start + 1, end - start - 1), 0,
                                     [depth |-> 0, last |-> 0, args |-> <<>>])

\* isSTLContainer: the loop over the container names; the name is searched anywhere in
\* type_name.
isSTLContainer(type_name) ==
    \E container \in {"std::vector", "vector", "std::list", "list", "std::deque", "deque",
                      "std::map", "map", "std::unordered_map", "unordered_map", "std::set",
                      "set", "std::unordered_set", "unordered_set", "std::string", "string",
                      "std::pair", "pair", "std::optional", "optional"} :
        Find(type_name, container) # npos

extractContainerName(type_str) ==
    IF Find(type_str, "<") # npos
    THEN (IF Find(Substr(type_str, 0, Find(type_str, "<")), "std::") = 0
          THEN SubstrFrom(Substr(type_str, 0, Find(type_str, "<")), 5)
          ELSE Substr(type_str, 0, Find(type_str, "<")))
    ELSE type_str

\* kind_map.find(name), TypeKind::Template for a name that is not a key.
getSTLContainerKind(name) ==
    IF name = "vector" THEN "StdVector"
    ELSE IF name = "list" THEN "StdList"
    ELSE IF name = "deque" THEN "StdDeque"
    ELSE IF name = "map" THEN "StdMap"
    ELSE IF name = "unordered_map" THEN "StdUnorderedMap"
    ELSE IF name = "set" THEN "StdSet"
    ELSE IF name = "unordered_set" THEN "StdUnorderedSet"
    ELSE IF name = "string" THEN "StdString"
    ELSE IF name = "pair" THEN "StdPair"
    ELSE IF name = "optional" THEN "StdOptional"
    ELSE "Template"

\* STLContainerMapper::mapBuiltinType, with its own table of twelve names; any other
\* name becomes a Class.
STLContainerMapper_mapBuiltinType(type_name) ==
    IF type_name \in {"int", "unsigned int", "long", "unsigned long", "short",
                      "unsigned short", "char", "unsigned char"}
    THEN NamedType("Integer", type_name)
    ELSE IF type_name \in {"float", "double"} THEN NamedType("Float", type_name)
    ELSE IF type_name = "bool" THEN NamedType("Bool", type_name)
    ELSE IF type_name = "void" THEN NamedType("Void", type_name)
    ELSE NamedType("Class", type_name)

RECURSIVE mapSTLContainer(_)
mapTypeRecursive(type_str) ==
    IF isSTLContainer(trim(type_str))
    THEN mapSTLContainer(trim(type_str))
    ELSE STLContainerMapper_mapBuiltinType(trim(type_str))

\* The loop pushes the mapped arguments that are not null, in order.
mapSTLContainer(cpp_type) ==
    IF getSTLContainerKind(extractContainerName(cpp_type)) = "Template"
    THEN nullptr
    ELSE [NamedType(getSTLContainerKind(extractContainerName(cpp_type)),
                    extractContainerName(cpp_type))
            EXCEPT !.template_args =
                SelectSeq([i \in 1..Len(extractTemplateArgs(cpp_type)) |->
                                mapTypeRecursive(extractTemplateArgs(cpp_type)[i])],
                          LAMBDA arg_type : arg_type # nullptr)]

RECURSIVE getRustEquivalent(_)
\* A getRustEquivalent that renders an absent Type as the empty text.
getRustEquivalent_emptyForAbsent(type) ==
    IF type = nullptr THEN ""
    ELSE IF type.kind = "StdVector"
    THEN (IF type.template_args # <<>>
          THEN "Vec<" \o getRustEquivalent(type.template_args[1]) \o ">"
          ELSE "Vec<()>")
    ELSE IF type.kind = "StdList"
    THEN (IF type.template_args # <<>>
          THEN "std::collections::LinkedList<" \o getRustEquivalent(type.template_args[1])
                    \o ">"
          ELSE "std::collections::LinkedList<()>")
    ELSE IF type.kind = "StdDeque"
    THEN (IF type.template_args # <<>>
          THEN "std::collections::VecDeque<" \o getRustEquivalent(type.template_args[1])
                    \o ">"
          ELSE "std::collections::VecDeque<()>")
    ELSE IF type.kind = "StdMap"
    THEN (IF Len(type.template_args) >= 2
          THEN "std::collections::BTreeMap<" \o getRustEquivalent(type.template_args[1])
                    \o ", " \o getRustEquivalent(type.template_args[2]) \o ">"
          ELSE "std::collections::BTreeMap<(), ()>")
    ELSE IF type.kind = "StdUnorderedMap"
    THEN (IF Len(type.template_args) >= 2
          THEN "std::collections::HashMap<" \o getRustEquivalent(type.template_args[1])
                    \o ", " \o getRustEquivalent(type.template_args[2]) \o ">"
          ELSE "std::collections::HashMap<(), ()>")
    ELSE IF type.kind = "StdSet"
    THEN (IF type.template_args # <<>>
          THEN "std::collections::BTreeSet<" \o getRustEquivalent(type.template_args[1])
                    \o ">"
          ELSE "std::collections::BTreeSet<()>")
    ELSE IF type.kind = "StdUnorderedSet"
    THEN (IF type.template_args # <<>>
          THEN "std::collections::HashSet<" \o getRustEquivalent(type.template_args[1])
                    \o ">"
          ELSE "std::collections::HashSet<()>")
    ELSE IF type.kind = "StdString" THEN "String"
    ELSE IF type.kind = "StdPair"
    THEN (IF Len(type.template_args) >= 2
          THEN "(" \o getRustEquivalent(type.template_args[1]) \o ", "
                    \o getRustEquivalent(type.template_args[2]) \o ")"
          ELSE "((), ())")
    ELSE IF type.kind = "StdOptional"
    THEN (IF type.template_args # <<>>
          THEN "Option<" \o getRustEquivalent(type.template_args[1]) \o ">"
          ELSE "Option<()>")
    ELSE IF type.kind = "Integer"
    THEN (IF type.name = "int" THEN "i32"
          ELSE IF type.name = "unsigned int" THEN "u32"
          ELSE IF type.name = "long" THEN "i64"
          ELSE IF type.name = "unsigned long" THEN "u64"
          ELSE IF type.name = "short" THEN "i16"
          ELSE IF type.name = "unsigned short" THEN "u16"
          ELSE IF type.name = "char" THEN "i8"
          ELSE IF type.name = "unsigned char" THEN "u8"
          ELSE IF Find(type.name, "int8_t") # npos THEN "i8"
          ELSE IF Find(type.name, "int16_t") # npos THEN "i16"
          ELSE IF Find(type.name, "int32_t") # npos THEN "i32"
          ELSE IF Find(type.name, "int64_t") # npos THEN "i64"
          ELSE IF Find(type.name, "uint8_t") # npos THEN "u8"
          ELSE IF Find(type.name, "uint16_t") # npos THEN "u16"
          ELSE IF Find(type.name, "uint32_t") # npos THEN "u32"
          ELSE IF Find(type.name, "uint64_t") # npos THEN "u64"
          ELSE IF Find(type.name, "size_t") # npos THEN "usize"
          ELSE "i32")
    ELSE IF type.kind = "Float"
    THEN (IF type.name = "float" THEN "f32" ELSE "f64")
    ELSE IF type.kind = "Bool" THEN "bool"
    ELSE IF type.kind = "Void" THEN "()"
    ELSE type.name

getRustEquivalent(type) ==
    IF type = nullptr THEN "()"
    ELSE IF type.kind = "StdVector"
    THEN (IF type.template_args # <<>>
          THEN "Vec<" \o getRustEquivalent(type.template_args[1]) \o ">"
          ELSE "Vec<()>")
    ELSE IF type.kind = "StdList"
    THEN (IF type.template_args # <<>>
          THEN "std::collections::LinkedList<" \o getRustEquivalent(type.template_args[1])
                    \o ">"
          ELSE "std::collections::LinkedList<()>")
    ELSE IF type.kind = "StdDeque"
    THEN (IF type.template_args # <<>>
          THEN "std::collections::VecDeque<" \o getRustEquivalent(type.template_args[1])
                    \o ">"
          ELSE "std::collections::VecDeque<()>")
    ELSE IF type.kind = "StdMap"
    THEN (IF Len(type.template_args) >= 2
          THEN "std::collections::BTreeMap<" \o getRustEquivalent(type.template_args[1])
                    \o ", " \o getRustEquivalent(type.template_args[2]) \o ">"
          ELSE "std::collections::BTreeMap<(), ()>")
    ELSE IF type.kind = "StdUnorderedMap"
    THEN (IF Len(type.template_args) >= 2
          THEN "std::collections::HashMap<" \o getRustEquivalent(type.template_args[1])
                    \o ", " \o getRustEquivalent(type.template_args[2]) \o ">"
          ELSE "std::collections::HashMap<(), ()>")
    ELSE IF type.kind = "StdSet"
    THEN (IF type.template_args # <<>>
          THEN "std::collections::BTreeSet<" \o getRustEquivalent(type.template_args[1])
                    \o ">"
          ELSE "std::collections::BTreeSet<()>")
    ELSE IF type.kind = "StdUnorderedSet"
    THEN (IF type.template_args # <<>>
          THEN "std::collections::HashSet<" \o getRustEquivalent(type.template_args[1])
                    \o ">"
          ELSE "std::collections::HashSet<()>")
    ELSE IF type.kind = "StdString" THEN "String"
    ELSE IF type.kind = "StdPair"
    THEN (IF Len(type.template_args) >= 2
          THEN "(" \o getRustEquivalent(type.template_args[1]) \o ", "
                    \o getRustEquivalent(type.template_args[2]) \o ")"
          ELSE "((), ())")
    ELSE IF type.kind = "StdOptional"
    THEN (IF type.template_args # <<>>
          THEN "Option<" \o getRustEquivalent(type.template_args[1]) \o ">"
          ELSE "Option<()>")
    ELSE IF type.kind = "Integer"
    THEN (IF type.name = "int" THEN "i32"
          ELSE IF type.name = "unsigned int" THEN "u32"
          ELSE IF type.name = "long" THEN "i64"
          ELSE IF type.name = "unsigned long" THEN "u64"
          ELSE IF type.name = "short" THEN "i16"
          ELSE IF type.name = "unsigned short" THEN "u16"
          ELSE IF type.name = "char" THEN "i8"
          ELSE IF type.name = "unsigned char" THEN "u8"
          ELSE IF Find(type.name, "int8_t") # npos THEN "i8"
          ELSE IF Find(type.name, "int16_t") # npos THEN "i16"
          ELSE IF Find(type.name, "int32_t") # npos THEN "i32"
          ELSE IF Find(type.name, "int64_t") # npos THEN "i64"
          ELSE IF Find(type.name, "uint8_t") # npos THEN "u8"
          ELSE IF Find(type.name, "uint16_t") # npos THEN "u16"
          ELSE IF Find(type.name, "uint32_t") # npos THEN "u32"
          ELSE IF Find(type.name, "uint64_t") # npos THEN "u64"
          ELSE IF Find(type.name, "size_t") # npos THEN "usize"
          ELSE "i32")
    ELSE IF type.kind = "Float"
    THEN (IF type.name = "float" THEN "f32" ELSE "f64")
    ELSE IF type.kind = "Bool" THEN "bool"
    ELSE IF type.kind = "Void" THEN "()"
    ELSE type.name

RECURSIVE getGoEquivalent(_)
getGoEquivalent(type) ==
    IF type = nullptr THEN "interface{}"
    ELSE IF type.kind \in {"StdVector", "StdList", "StdDeque"}
    THEN (IF type.template_args # <<>>
          THEN "[]" \o getGoEquivalent(type.template_args[1])
          ELSE "[]interface{}")
    ELSE IF type.kind \in {"StdMap", "StdUnorderedMap"}
    THEN (IF Len(type.template_args) >= 2
          THEN "map[" \o getGoEquivalent(type.template_args[1]) \o "]"
                    \o getGoEquivalent(type.template_args[2])
          ELSE "map[interface{}]interface{}")
    ELSE IF type.kind \in {"StdSet", "StdUnorderedSet"}
    THEN (IF type.template_args # <<>>
          THEN "map[" \o getGoEquivalent(type.template_args[1]) \o "]bool"
          ELSE "map[interface{}]bool")
    ELSE IF type.kind = "StdString" THEN "string"
    ELSE IF type.kind = "StdPair"
    THEN (IF Len(type.template_args) >= 2
          THEN "struct { First " \o getGoEquivalent(type.template_args[1]) \o "; Second "
                    \o getGoEquivalent(type.template_args[2]) \o " }"
          ELSE "struct { First interface{}; Second interface{} }")
    ELSE IF type.kind = "StdOptional"
    THEN (IF type.template_args # <<>>
          THEN "*" \o getGoEquivalent(type.template_args[1])
          ELSE "*interface{}")
    ELSE IF type.kind = "Integer"
    THEN (IF type.name = "int" THEN "int32"
          ELSE IF type.name = "unsigned int" THEN "uint32"
          ELSE IF type.name = "long" THEN "int64"
          ELSE IF type.name = "unsigned long" THEN "uint64"
          ELSE IF type.name = "short" THEN "int16"
          ELSE IF type.name = "unsigned short" THEN "uint16"
          ELSE IF type.name = "char" THEN "int8"
          ELSE IF type.name = "unsigned char" THEN "uint8"
          ELSE IF Find(type.name, "size_t") # npos THEN "uint64"
          ELSE "int32")
    ELSE IF type.kind = "Float"
    THEN (IF type.name = "float" THEN "float32" ELSE "float64")
    ELSE IF type.kind = "Bool" THEN "bool"
    ELSE IF type.kind = "Void" THEN "interface{}"
    ELSE type.name

\* TranspilerOptions with its default member initializers.
TranspilerOptions ==
    [target |-> "Rust", optimization_level |-> 0, enable_safety_checks |-> TRUE,
     preserve_comments |-> TRUE, generate_tests |-> FALSE, verbose |-> FALSE,
     quiet |-> FALSE, output_path |-> ""]

(***************************************************************************)
(* CodeGenerator (codegen/codegen_base.cpp) and the Rust generator.        *)
(***************************************************************************)
RECURSIVE Concat(_)
Concat(strs) == IF strs = <<>> THEN "" ELSE Head(strs) \o Concat(Tail(strs))

\* A generator as constructed: nothing written, no indentation.
CodeGenerator == [output_ |-> "", indent_level_ |-> 0]

\* writeIndent(): four spaces per indent level, appended to output_.
writeIndent(g) == [g EXCEPT !.output_ = @ \o Concat([i \in 1..g.indent_level_ |-> "    "])]

\* writeLine(line): an empty line gets the newline only.
writeLine(g, line) ==
    [(IF line # "" THEN [writeIndent(g) EXCEPT !.output_ = @ \o line] ELSE g)
        EXCEPT !.output_ = @ \o "\n"]

\* One line per member (fields or methods) of a class, in declared order.
RECURSIVE writeMembers(_, _, _, _)
writeMembers(g, prefix, members, suffix) ==
    IF members = <<>> THEN g
    ELSE writeMembers(writeLine(g, prefix \o Head(members).name \o suffix), prefix,
                      Tail(members), suffix)

\* The classes in declaration order: per class the data declaration with the fields
\* in declared order, then the method declarations.  The Rust generator's own file
\* is not among the sources at hand; the walk follows the generators' description
\* and writes through writeLine, the wording of the lines is a placeholder.
RECURSIVE generateClasses(_, _)
generateClasses(g, classes) ==
    IF classes = <<>> THEN g
    ELSE LET c == Head(classes)
             opened == [writeLine(g, "pub struct " \o c.name \o " {")
                            EXCEPT !.indent_level_ = @ + 1]
             fields == [writeMembers(opened, "pub ", c.fields, ",")
                            EXCEPT !.indent_level_ = @ - 1]
             impl == [writeLine(writeLine(writeLine(fields, "}"), ""),
                                "impl " \o c.name \o " {")
                            EXCEPT !.indent_level_ = @ + 1]
             methods == [writeMembers(impl, "pub fn ", c.methods, "()")
                            EXCEPT !.indent_level_ = @ - 1]
         IN  generateClasses(writeLine(writeLine(methods, "}"), ""), Tail(classes))

\* A generate that goes on writing into the buffer the generator already holds.
generate_appending(g, program) ==
    LET done == generateClasses(g, program.classes_)
    IN  [gen |-> done, ret |-> done.output_]

\* RustCodeGenerator::generate(ir): the text is a function of the IR alone, so the
\* walk starts on an empty buffer at indent level 0; the result is the buffer's text.
generate(g, program) ==
    LET done == generateClasses(CodeGenerator, program.classes_)
    IN  [gen |-> done, ret |-> done.output_]

(***************************************************************************)
(* SpecTranspiler: one Transpiler object under any sequence of transpile   *)
(* and transpileBatch calls.                                               *)
(***************************************************************************)
InputPaths == {"a.cpp", "b.cpp"}

Envs == [readable : BOOLEAN, writable : BOOLEAN]

\* Every object as constructed, before any call on it: the values a specification
\* gives to the variables of the components it leaves alone.
Constructed ==
    [ir |-> EmptyIR,
     calls |-> [last |-> [op |-> "none", name |-> "", type |-> nullptr], written |-> {},
                mismatched |-> FALSE],
     tr |-> Transpiler([target |-> "Rust", output_path |-> "out.txt"]),
     runs |-> <<>>,
     fn |-> Function("", "", FALSE),
     ex |-> [passes |-> 0, by_hand |-> FALSE, target |-> "", strategy |-> "none"],
     th |-> [passes |-> 0],
     cd |-> ClassDecl(""),
     cl |-> [passes |-> 0, fresh |-> FALSE],
     q |-> [op |-> "none", arg |-> "", out |-> nullptr, prev |-> nullptr],
     cg |-> [program |-> EmptyIR, gen |-> CodeGenerator, made |-> 1, outs |-> <<>>],
     cli |-> [argv |-> <<>>, ended |-> "no", ret |-> 0, err |-> "",
              options |-> TranspilerOptions, transpiled |-> FALSE]]

Transpile(input_path, env) ==
    /\ Len(runs) < MaxRuns
    /\ LET res == transpile(tr, input_path, env)
       IN  tr' = res.tr /\ runs' = Append(runs, res.run)
    /\ UNCHANGED <<ir, calls, fn, ex, th, cd, cl, q, cg, cli>>

TranspileBatch(input_paths, envs) ==
    /\ Len(runs) + Len(input_paths) <= MaxRuns
    /\ LET res == transpileBatch(tr, input_paths, envs)
       IN  tr' = res.tr /\ runs' = runs \o res.runs
    /\ UNCHANGED <<ir, calls, fn, ex, th, cd, cl, q, cg, cli>>

TrInit ==
    /\ \E tg \in {"Rust", "Go"} : tr = Transpiler([target |-> tg, output_path |-> "out.txt"])
    /\ runs = <<>>
    /\ ir = Constructed.ir /\ calls = Constructed.calls
    /\ fn = Constructed.fn /\ ex = Constructed.ex /\ th = Constructed.th
    /\ cd = Constructed.cd /\ cl = Constructed.cl /\ q = Constructed.q
    /\ cg = Constructed.cg /\ cli = Constructed.cli

TrNext ==
    \/ \E p \in InputPaths, e \in Envs : Transpile(p, e)
    \/ \E n \in 2..MaxBatch :
         \E ps \in [1..n -> InputPaths], es \in [1..n -> Envs] : TranspileBatch(ps, es)

SpecTranspiler == TrInit /\ [][TrNext]_vars

\* C3: each file's run is independent: the IR from which the output of a file is
\* generated holds only the declarations built for that file, nothing added while an
\* earlier file was processed.
C3_RunsIndependent ==
    \A i \in 1..Len(runs) :
        runs[i].generated_from # nullptr => runs[i].generated_from.classes_ = runs[i].built

\* C30: after any sequence of transpile calls on one Transpiler, getLastError describes
\* the most recent call: it is non-empty only if that call returned false, so a failed
\* call followed by a successful one leaves no message behind.
C30_LastErrorIsCurrent ==
    (Len(runs) > 0 /\ tr.last_error_ # "") => ~runs[Len(runs)].ret

(***************************************************************************)
(* SpecIR: one IR object under any sequence of its four mutators.          *)
(***************************************************************************)
TypeNames == {"Point", "Shape"}

AddClass(c) ==
    /\ Len(ir.classes_) < MaxDecls
    /\ ir' = addClass(ir, c)
    /\ calls' = [calls EXCEPT !.last = [op |-> "addClass", name |-> c.name,
                                        type |-> NamedType("Class", c.name)],
                              !.written = @ \cup {c.name}]
    /\ UNCHANGED <<tr, runs, fn, ex, th, cd, cl, q, cg, cli>>

AddFunction(f) ==
    /\ Len(ir.functions_) < MaxDecls
    /\ ir' = addFunction(ir, f)
    /\ calls' = [calls EXCEPT !.last = [op |-> "addFunction", name |-> f.name, type |-> nullptr]]
    /\ UNCHANGED <<tr, runs, fn, ex, th, cd, cl, q, cg, cli>>

AddGlobalVariable(v) ==
    /\ Len(ir.global_vars_) < MaxDecls
    /\ ir' = addGlobalVariable(ir, v)
    /\ calls' = [calls EXCEPT !.last = [op |-> "addGlobalVariable", name |-> v.name,
                                        type |-> nullptr]]
    /\ UNCHANGED <<tr, runs, fn, ex, th, cd, cl, q, cg, cli>>

RegisterType(name, type) ==
    /\ ir' = registerType(ir, name, type)
    /\ calls' = [calls EXCEPT !.last = [op |-> "registerType", name |-> name, type |-> type],
                              !.written = @ \cup {name},
                              !.mismatched = @ \/ type = nullptr \/ type.name # name]
    /\ UNCHANGED <<tr, runs, fn, ex, th, cd, cl, q, cg, cli>>

IRInit ==
    /\ ir = Constructed.ir /\ calls = Constructed.calls /\ tr = Constructed.tr
    /\ runs = Constructed.runs /\ fn = Constructed.fn /\ ex = Constructed.ex
    /\ th = Constructed.th /\ cd = Constructed.cd /\ cl = Constructed.cl
    /\ q = Constructed.q
    /\ cg = Constructed.cg /\ cli = Constructed.cli

IRNext ==
    \/ \E n \in TypeNames, b \in BOOLEAN : AddClass([name |-> n, is_struct |-> b])
    \/ \E n \in {"main"} : AddFunction([name |-> n])
    \/ \E n \in {"g_count"} : AddGlobalVariable([name |-> n])
    \/ \E n \in TypeNames :
         \E t \in {NamedType(k, m) : k \in {"Class", "Struct"}, m \in TypeNames} \cup {nullptr} :
            RegisterType(n, t)

SpecIR == IRInit /\ [][IRNext]_vars

\* The names of the classes in the classes list.
ClassNamesOf(r) == {r.classes_[i].name : i \in 1..Len(r.classes_)}

\* C1 (as stated): after any sequence of addClass, addFunction, addGlobalVariable and
\* registerType calls, every class name in the classes list has a registry entry
\* (findType is not absent) whose Type carries the class's name.
C1_ClassesRegistered ==
    \A n \in ClassNamesOf(ir) : findType(ir, n) # nullptr /\ findType(ir, n).name = n

\* C1 (amended): the same, for the sequences in which every registerType(name, type)
\* call passed a non-null Type whose own name is `name`.
C1_ClassesRegisteredWhenDisciplined ==
    ~calls.mismatched =>
        \A n \in ClassNamesOf(ir) : findType(ir, n) # nullptr /\ findType(ir, n).name = n

\* Two classes are listed, a registerType call re-registered a class under its own name
\* with another kind, and no call passed a mismatched type.
C1_Witness ==
    /\ Len(ir.classes_) = 2
    /\ ~calls.mismatched
    /\ calls.last.op = "registerType"
    /\ calls.last.name \in ClassNamesOf(ir)
    /\ findType(ir, calls.last.name).kind = "Struct"

\* C2: findType(name) is the Type given by the most recent registerType(name, ...) or
\* addClass of that name, absent for a name never registered, and a registration of
\* one name leaves findType of every other name as it was.
C2_LastWriteWins ==
    /\ [](\A n \in TypeNames : n \notin calls.written => findType(ir, n) = nullptr)
    /\ [][ /\ calls'.last.op \in {"registerType", "addClass"} =>
               /\ findType(ir', calls'.last.name) = calls'.last.type
               /\ \A m \in TypeNames \ {calls'.last.name} : findType(ir', m) = findType(ir, m)
           /\ calls'.last.op \in {"addFunction", "addGlobalVariable"} =>
               \A m \in TypeNames : findType(ir', m) = findType(ir, m) ]_vars

\* A name registered twice with different types answers with the second one, while the
\* other name was never registered.
C2_Witness ==
    /\ calls.last.op = "registerType"
    /\ calls.last.name = "Point"
    /\ "Point" \in ClassNamesOf(ir)
    /\ calls.last.type = NamedType("Struct", "Shape")
    /\ findType(ir, "Point") = NamedType("Struct", "Shape")
    /\ "Shape" \notin calls.written


(***************************************************************************)
(* SpecException: one Function, analysed by ExceptionAnalyzer (or          *)
(* annotated by hand, as the tests do) and handed to selectStrategy.       *)
(***************************************************************************)
\* try { ... try { ... } catch (RuntimeError e) { throw; } } catch (...) {}
NestedBodies ==
    {"try {" \o a \o "try {" \o b \o "} catch" \o sp \o "(RuntimeError e)" \o sp \o
        "{ throw; } } catch" \o sp \o "(...) {}" :
        a \in {" ", " begin(); "}, b \in {" op(); ", " op(); commit(); return true; "},
        sp \in {"", " "}}

FlatBodies ==
    {"return 1;",
     "try { f(); } catch (...) { g(); }",
     "try { f(); } catch (const std::exception& e) { log(e); }",
     "if (x < 0) throw std::invalid_argument(\"neg\"); return x;",
     "try { a(); } catch (E1 e) { } try { b(); } catch (E2& e) { throw e; }",
     "try { a(); } catch (E1 e) { } try { b(); } catch (...) { h(); }",
     "try { f(); } catch (A a) { x(); } catch (B b) { y(); }",
     "try { f(); } catch (A a) { x(); } catch (B b) { y(); } catch (...) { z(); }",
     "throw std::runtime_error(\"failed\");"}

\* Bodies with one try/catch whose parameter is '[const] T [&] v' with whitespace put
\* in different ways, each with its T and v.
CatchParams ==
    {[body |-> "try { f(); } catch (" \o c \o T \o r \o v \o w \o ") { }",
      type |-> T, var |-> v] :
        c \in {"", "const ", " const  "},
        T \in {"std::exception", "E1", "reconstruct_error"},
        r \in {" ", "& ", " &", "  &\t"},
        v \in {"e", "err"},
        w \in {"", " "}}

\* A try/catch block as a test would attach it by hand.
HandBlock ==
    [try_body |-> " f(); ",
     catch_clauses |-> << [exception_type |-> "...", exception_var |-> "",
                           handler_body |-> ""] >>]

ExInit ==
    /\ \/ \E n \in {"compute", "compute_noexcept"}, b \in NestedBodies \cup FlatBodies,
             c \in BOOLEAN : fn = Function(n, b, c)
       \/ \E p \in CatchParams : fn = Function("compute", p.body, FALSE)
    /\ ir = Constructed.ir /\ calls = Constructed.calls /\ tr = Constructed.tr
    /\ runs = Constructed.runs /\ ex = Constructed.ex /\ th = Constructed.th
    /\ cd = Constructed.cd /\ cl = Constructed.cl /\ q = Constructed.q
    /\ cg = Constructed.cg /\ cli = Constructed.cli

\* ExceptionAnalyzer::analyzeFunction(fn).
ExAnalyze ==
    /\ ex.passes < MaxPasses
    /\ fn' = ExceptionAnalyzer_analyzeFunction(fn)
    /\ ex' = [ex EXCEPT !.passes = @ + 1, !.strategy = "none", !.target = ""]
    /\ UNCHANGED <<ir, calls, tr, runs, th, cd, cl, q, cg, cli>>

\* The caller sets the annotations itself.
ExAnnotate(may, noex, blocks) ==
    /\ fn' = [fn EXCEPT !.may_throw = may, !.exception_spec.is_noexcept = noex,
                        !.try_catch_blocks = blocks]
    /\ ex' = [ex EXCEPT !.by_hand = TRUE, !.strategy = "none", !.target = ""]
    /\ UNCHANGED <<ir, calls, tr, runs, th, cd, cl, q, cg, cli>>

\* ExceptionStrategySelector::selectStrategy(fn, target_lang).
ExSelect(target_lang) ==
    /\ ex' = [ex EXCEPT !.strategy = selectStrategy(fn, target_lang), !.target = target_lang]
    /\ UNCHANGED <<ir, calls, tr, runs, fn, th, cd, cl, q, cg, cli>>

ExNext ==
    \/ ExAnalyze
    \/ \E may \in BOOLEAN, noex \in BOOLEAN, blocks \in {<<>>, <<HandBlock>>} :
         ExAnnotate(may, noex, blocks)
    \/ \E t \in {"rust", "go"} : ExSelect(t)

SpecException == ExInit /\ [][ExNext]_vars

\* The catch clauses of all the recorded blocks, in order.
RECURSIVE ClausesOf(_)
ClausesOf(blocks) ==
    IF blocks = <<>> THEN <<>> ELSE Head(blocks).catch_clauses \o ClausesOf(Tail(blocks))

\* C4: for a body with a try/catch nested in the protected body of another try/catch
\* (inner parameter 'RuntimeError e', outer parameter '...'), the analysis detects two
\* catch clauses: the inner one of type RuntimeError bound to e, the outer one a
\* catch-all with no bound name.
C4_NestedCatchClauses ==
    (ex.passes = 1 /\ ~ex.by_hand /\ fn.body \in NestedBodies) =>
        LET clauses == ClausesOf(fn.try_catch_blocks)
        IN  /\ Len(clauses) = 2
            /\ clauses[1].exception_type = "RuntimeError"
            /\ clauses[1].exception_var = "e"
            /\ clauses[2].exception_type = "..."
            /\ clauses[2].exception_var = ""

\* C5: selectStrategy follows the decision table: Ignore when the function neither may
\* fail nor has a try/catch block; ResultType for target "rust" and ErrorReturn for the
\* other target when the function is noexcept and has a try/catch block, and likewise
\* whenever the function may fail.
C5_StrategyTable ==
    ex.strategy # "none" =>
        LET handles == fn.try_catch_blocks # <<>>
            lowered == IF ex.target = "rust" THEN "ResultType" ELSE "ErrorReturn"
        IN  /\ (~fn.may_throw /\ ~handles) => ex.strategy = "Ignore"
            /\ (fn.exception_spec.is_noexcept /\ handles) => ex.strategy = lowered
            /\ fn.may_throw => ex.strategy = lowered

\* A noexcept function that handles internally and is not marked may-fail was lowered
\* for the other target.
C5_Witness ==
    /\ ex.strategy = "ErrorReturn"
    /\ ex.target = "go"
    /\ fn.exception_spec.is_noexcept
    /\ fn.try_catch_blocks # <<>>
    /\ ~fn.may_throw

\* C29: for every Function, however its annotations were set, selectStrategy does not
\* return Ignore when the function has at least one try/catch block, and it never
\* returns Panic.
C29_HandledNeverIgnored ==
    ex.strategy # "none" =>
        /\ fn.try_catch_blocks # <<>> => ex.strategy # "Ignore"
        /\ ex.strategy # "Panic"

\* C14: a try region followed by k >= 2 consecutive catch clauses is recorded as one
\* TryCatchBlock whose catch_clauses has k entries, one per catch clause in source
\* order, each with its own parameter and handler body.
C14_ConsecutiveCatches ==
    /\ (ex.passes = 1 /\ ~ex.by_hand
            /\ fn.body = "try { f(); } catch (A a) { x(); } catch (B b) { y(); }") =>
        /\ Len(fn.try_catch_blocks) = 1
        /\ fn.try_catch_blocks[1].catch_clauses =
             << [exception_type |-> "A", exception_var |-> "a", handler_body |-> " x(); "],
                [exception_type |-> "B", exception_var |-> "b", handler_body |-> " y(); "] >>
    /\ (ex.passes = 1 /\ ~ex.by_hand
            /\ fn.body = "try { f(); } catch (A a) { x(); } catch (B b) { y(); } catch (...) { z(); }") =>
        /\ Len(fn.try_catch_blocks) = 1
        /\ Len(fn.try_catch_blocks[1].catch_clauses) = 3

C16_TypeAndNameKept ==
    \A p \in CatchParams :
        (ex.passes = 1 /\ ~ex.by_hand /\ fn.body = p.body) =>
            /\ Len(fn.try_catch_blocks) = 1
            /\ fn.try_catch_blocks[1].catch_clauses[1].exception_type = p.type
            /\ fn.try_catch_blocks[1].catch_clauses[1].exception_var = p.var

SpawnForms ==
    {"std::thread t(" \o a \o ");" : a \in {"worker, 10", "worker,10", " worker , 10 "}} \cup
    {"std::thread t{" \o a \o "};" : a \in {"worker, 10", "worker,10", " worker , 10 "}} \cup
    {v \o " t = std::thread(" \o a \o ");" :
        v \in {"auto", "std::thread"}, a \in {"worker, 10", "worker,10", " worker , 10 "}}

\* ... followed later by t.detach().
SpawnDetachBodies ==
    {pre \o spawn \o mid \o det :
        pre \in {"", "int n = 0; "}, spawn \in SpawnForms,
        mid \in {" ", " run(n); ", "\n    "}, det \in {"t.detach();", "t.detach ();"}}

\* Bodies with other uses of threads, locks, atomics and condition variables.
OtherBodies ==
    {"return 0;",
     "std::thread t(worker, 10); t.join();",
     "std::thread t1{f}; std::thread t2(g); auto t3 = std::thread(h); std::thread t4(k);",
     "std::unique_lock<std::mutex> l1(m); std::lock_guard<std::mutex> l2(m); std::shared_lock<std::shared_mutex> l3(s);",
     "std::thread t1(f); std::thread t2{g}; std::lock_guard<std::mutex> l1(m); std::unique_lock<std::mutex> l2(m);",
     "{ std::thread t(f); t.detach(); } { std::thread t(g); t.detach(); }",
     "std::thread t1(f); std::thread t2(g); u.detach(); t2.detach (); t1.join();",
     "std::thread a(f); std::thread b{g, 1, 2}; b.detach();",
     "std::thread t(worker, f(1,2), 3);",
     "std::thread t{worker, f(1,2), 3};",
     "auto t = std::thread(worker, f(1,2), 3);",
     "std::lock_guard<std::mutex> lock(mtx); count.fetch_add(1); cv.notify_one();",
     "std::atomic<int> c; c.store(1); int v = c.load();",
     "count.fetch_add(1); x.store(2); count.fetch_sub(1); n = count.load ();",
     "std::atomic<bool> flag; std::atomic<int> c(0); c.fetch_add(1); flag.exchange(true); c.compare_exchange_strong(e, 1); flag.compare_exchange_weak(e, d);",
     "x.exchange(c.load()); std::atomic<long> x; x.store(0);",
     "std::condition_variable cv; std::unique_lock<std::mutex> lk(m); cv.wait(lk);"}

ThInit ==
    /\ \E b \in SpawnDetachBodies \cup OtherBodies : fn = Function("run", b, FALSE)
    /\ ir = Constructed.ir /\ calls = Constructed.calls /\ tr = Constructed.tr
    /\ runs = Constructed.runs /\ ex = Constructed.ex /\ th = Constructed.th
    /\ cd = Constructed.cd /\ cl = Constructed.cl /\ q = Constructed.q
    /\ cg = Constructed.cg /\ cli = Constructed.cli

\* ThreadAnalyzer::analyzeFunction(fn).
ThAnalyze ==
    /\ th.passes < MaxPasses
    /\ fn' = ThreadAnalyzer_analyzeFunction(fn)
    /\ th' = [th EXCEPT !.passes = @ + 1]
    /\ UNCHANGED <<ir, calls, tr, runs, ex, cd, cl, q, cg, cli>>

ThNext == ThAnalyze

SpecThread == ThInit /\ [][ThNext]_vars

\* C6: for a body with one spawn of thread t running worker with the single argument
\* 10, in the declared-variable, brace-initialized or assignment form, followed later
\* by t.detach(), the analysis records exactly one ThreadInfo: thread variable t,
\* function name worker, arguments ["10"], detached, not joinable.
C6_SpawnThenDetach ==
    (th.passes = 1 /\ fn.body \in SpawnDetachBodies) =>
        /\ Len(fn.threads_created) = 1
        /\ fn.threads_created[1].thread_var_name = "t"
        /\ fn.threads_created[1].function_name = "worker"
        /\ fn.threads_created[1].arguments = <<"10">>
        /\ fn.threads_created[1].detached
        /\ ~fn.threads_created[1].joinable

\* The assignment form, after other statements, was analysed once and recorded as one
\* detached thread.
C6_Witness ==
    /\ th.passes = 1
    /\ fn.body = "int n = 0; auto t = std::thread( worker , 10 ); run(n); t.detach ();"
    /\ Len(fn.threads_created) = 1
    /\ fn.threads_created[1].arguments = <<"10">>
    /\ fn.threads_created[1].detached
    /\ fn.uses_threading

\* C25: within one function, threads_created lists the recorded threads in the order
\* their spawn sites appear in the body text, and lock_scopes lists the recorded locks
\* in the order their guard declarations appear in the body text, whatever surface
\* form or guard flavor each site uses.  (A site is found at the first occurrence of
\* the name it declares.)
C25_BodyOrder ==
    th.passes = 1 =>
        /\ \A i, j \in 1..Len(fn.threads_created) :
                i < j => Find(fn.body, fn.threads_created[i].thread_var_name)
                            <= Find(fn.body, fn.threads_created[j].thread_var_name)
        /\ \A i, j \in 1..Len(fn.lock_scopes) :
                i < j => Find(fn.body, fn.lock_scopes[i].lock_var_name)
                            <= Find(fn.body, fn.lock_scopes[j].lock_var_name)

\* C26: after detectThreadCreation on a function not analyzed before, every recorded
\* ThreadInfo r is detached exactly when the body holds a detach call on r's thread
\* variable name, and a detached r is not joinable; a detach call on a name that
\* matches no recorded thread changes no record.
C26_DetachedIffCalled ==
    th.passes = 1 =>
        \A i \in 1..Len(fn.threads_created) :
            LET r == fn.threads_created[i]
            IN  /\ r.detached <=>
                        \E w \in {"", " "} :
                            Find(fn.body, " " \o r.thread_var_name \o ".detach" \o w \o "()")
                                # npos
                /\ r.detached => ~r.joinable

\* C24: a second ThreadAnalyzer::analyzeFunction, ExceptionAnalyzer::analyzeFunction or
\* ThreadAnalyzer::analyzeClass on an already analyzed, otherwise unchanged Function
\* or ClassDecl leaves its inventories (threads_created, lock_scopes,
\* atomic_operations with their operation lists, condition_variables,
\* try_catch_blocks, mutexes, atomic_fields) exactly as they were after the first.
C24_SecondPassIdempotent ==
    [][((th.passes = 1 /\ th'.passes = 2) \/ (ex.passes = 1 /\ ex'.passes = 2 /\ ~ex.by_hand)
            \/ (cl.passes = 1 /\ cl'.passes = 2 /\ cl.fresh)) =>
        /\ fn'.threads_created = fn.threads_created
        /\ fn'.lock_scopes = fn.lock_scopes
        /\ fn'.atomic_operations = fn.atomic_operations
        /\ fn'.condition_variables = fn.condition_variables
        /\ fn'.try_catch_blocks = fn.try_catch_blocks
        /\ cd'.mutexes = cd.mutexes
        /\ cd'.atomic_fields = cd.atomic_fields]_vars

\* C19: for a spawn site whose argument list after the callable has N top-level
\* arguments, some with nested parentheses and commas inside, as in
\* (worker, f(1,2), 3), the recorded ThreadInfo.arguments has exactly N entries, each
\* the trimmed text of one top-level argument.
C19_NestedArguments ==
    (th.passes = 1 /\ fn.body \in {"std::thread t(worker, f(1,2), 3);",
                                   "std::thread t{worker, f(1,2), 3};",
                                   "auto t = std::thread(worker, f(1,2), 3);"}) =>
        /\ Len(fn.threads_created) = 1
        /\ fn.threads_created[1].function_name = "worker"
        /\ fn.threads_created[1].arguments = <<"f(1,2)", "3">>

\* C20: after detectAtomicOperations on a function not analysed before, every variable
\* v with at least one atomic operation call site (v.load, v.store, v.fetch_add,
\* v.fetch_sub, v.exchange, v.compare_exchange_weak or v.compare_exchange_strong,
\* followed by its parenthesis) has a record whose operations list is exactly v's
\* operation names in source order: the record made by v's atomic declaration if
\* there is one, otherwise a single record made at v's first operation.
C20_AtomicOperations ==
    th.passes = 1 =>
        LET body == fn.body
            opnames == {"load", "store", "fetch_add", "fetch_sub", "exchange",
                        "compare_exchange_weak", "compare_exchange_strong"}
            called(i, v, op) ==
                /\ OccursAt(body, v \o "." \o op, i)
                /\ i = 0 \/ At(body, i - 1) \in {" ", "(", ";"}
                /\ LET rest == SubstrFrom(body, i + Len(v) + 1 + Len(op))
                   IN  /\ FindFirstNotOf(rest, {" "}) # npos
                       /\ At(rest, FindFirstNotOf(rest, {" "})) = "("
            sites(v) == {i \in 0..(Len(body) - 1) : \E op \in opnames : called(i, v, op)}
            site(v, k) == CHOOSE i \in sites(v) :
                            Cardinality({j \in sites(v) : j < i}) = k - 1
            expected(v) == [k \in 1..Cardinality(sites(v)) |->
                                CHOOSE op \in opnames : called(site(v, k), v, op)]
            declared(v) == \E T \in {"int", "bool", "long"} :
                                Find(body, "std::atomic<" \o T \o "> " \o v) # npos
            records(v) == SelectSeq(fn.atomic_operations,
                                    LAMBDA r : r.atomic_var_name = v)
        IN  \A v \in {"c", "count", "x", "flag"} :
                sites(v) # {} =>
                    /\ records(v) # <<>>
                    /\ records(v)[1].operations = expected(v)
                    /\ declared(v) <=> records(v)[1].value_type # nullptr
                    /\ ~declared(v) => Len(records(v)) = 1
                    /\ \A k \in 2..Len(records(v)) : records(v)[k].operations = <<>>

\* Operations on two undeclared variables, interleaved, gave one record each with the
\* operations in source order.
C20_Witness ==
    /\ th.passes = 1
    /\ fn.body = "count.fetch_add(1); x.store(2); count.fetch_sub(1); n = count.load ();"
    /\ fn.atomic_operations =
         << [atomic_var_name |-> "count", value_type |-> nullptr,
             operations |-> <<"fetch_add", "fetch_sub", "load">>],
            [atomic_var_name |-> "x", value_type |-> nullptr, operations |-> <<"store">>] >>

(***************************************************************************)
(* SpecClass: one ClassDecl that gets its fields and is analysed by        *)
(* ThreadAnalyzer::analyzeClass.                                           *)
(***************************************************************************)
\* The i-th field of the class, of the given type kind.
Field(i, kind) ==
    [name |-> <<"m1", "m2", "m3", "m4", "m5", "m6">>[i],
     type |-> IF kind = "StdAtomic"
              THEN [Type(kind) EXCEPT !.element_type = IntType]
              ELSE Type(kind)]

ClInit ==
    /\ cd = ClassDecl("Counter")
    /\ ir = Constructed.ir /\ calls = Constructed.calls /\ tr = Constructed.tr
    /\ runs = Constructed.runs /\ fn = Constructed.fn /\ ex = Constructed.ex
    /\ th = Constructed.th /\ cl = Constructed.cl /\ q = Constructed.q
    /\ cg = Constructed.cg /\ cli = Constructed.cli

\* class_decl.fields.push_back(field), as the front end does for each member.
ClAddField(kind) ==
    /\ Len(cd.fields) < MaxFields
    /\ cd' = [cd EXCEPT !.fields = Append(@, Field(Len(cd.fields) + 1, kind))]
    /\ cl' = [cl EXCEPT !.fresh = FALSE]
    /\ UNCHANGED <<ir, calls, tr, runs, fn, ex, th, q, cg, cli>>

\* ThreadAnalyzer::analyzeClass(cd).
ClAnalyze ==
    /\ cl.passes < MaxPasses
    /\ cd' = ThreadAnalyzer_analyzeClass(cd)
    /\ cl' = [passes |-> cl.passes + 1, fresh |-> TRUE]
    /\ UNCHANGED <<ir, calls, tr, runs, fn, ex, th, q, cg, cli>>

ClNext ==
    \/ \E k \in {"StdMutex", "StdRecursiveMutex", "StdSharedMutex", "StdAtomic",
                 "StdConditionVariable", "Integer"} : ClAddField(k)
    \/ ClAnalyze

SpecClass == ClInit /\ [][ClNext]_vars

\* C7: after analyzeClass on a class not analyzed before, the mutex inventory lists
\* exactly the names of the fields of a mutex kind (mutex, recursive mutex, shared
\* mutex) and the atomic inventory exactly the names of the fields of atomic kind, each
\* in field order, and thread_safe holds iff one of the inventories is non-empty.
C7_ClassInventories ==
    (cl.passes = 1 /\ cl.fresh) =>
        LET mutexFields ==
                SelectSeq(cd.fields, LAMBDA f :
                    f.type.kind \in {"StdMutex", "StdRecursiveMutex", "StdSharedMutex"})
            atomicFields == SelectSeq(cd.fields, LAMBDA f : f.type.kind = "StdAtomic")
        IN  /\ [i \in 1..Len(cd.mutexes) |-> cd.mutexes[i].mutex_var_name] =
                    [i \in 1..Len(mutexFields) |-> mutexFields[i].name]
            /\ [i \in 1..Len(cd.atomic_fields) |-> cd.atomic_fields[i].atomic_var_name] =
                    [i \in 1..Len(atomicFields) |-> atomicFields[i].name]
            /\ cd.thread_safe <=> (cd.mutexes # <<>> \/ cd.atomic_fields # <<>>)

\* A class with an atomic, a shared mutex and a plain field, in this order, was
\* analysed once.
C7_Witness ==
    /\ cl.passes = 1 /\ cl.fresh
    /\ Len(cd.fields) = 3
    /\ cd.fields[1].type.kind = "StdAtomic"
    /\ cd.fields[2].type.kind = "StdSharedMutex"
    /\ cd.fields[3].type.kind = "Integer"
    /\ cd.mutexes = << [type |-> "SharedMutex", mutex_var_name |-> "m2"] >>
    /\ Len(cd.atomic_fields) = 1
    /\ cd.thread_safe

(***************************************************************************)
(* SpecTypes: calls of the pure mapper functions; q holds the last call.   *)
(***************************************************************************)
\* The type strings handed to extractTemplateArgs.
TypeStrings ==
    {"map<" \o Concat(ts) \o ">" :
        ts \in UNION {[1..n -> {"int", ",", " ", "vector<", ">", "pair<int,int>"}] :
                        n \in 0..MaxTokens}} \cup
    {"map<string, vector<pair<int,int>>>", "std::vector<int>", "int", "", "a>b<c"}

\* The Types handed to analyzePointerPattern.
PatternTypes ==
    {nullptr} \cup
    {[NamedType(k, n) EXCEPT !.is_const = c] :
        k \in {"Void", "Bool", "Integer", "Float", "Pointer", "Reference", "Array", "Struct",
               "Class", "Enum", "Function", "Template"},
        c \in BOOLEAN,
        n \in {"", "int", "std::unique_ptr<int>", "std::shared_ptr<Point>", "unique_ptr",
               "my_shared_ptr_t", "shared_ptr<unique_ptr<int>>"}}

TyInit ==
    /\ ir = Constructed.ir /\ calls = Constructed.calls /\ tr = Constructed.tr
    /\ runs = Constructed.runs /\ fn = Constructed.fn /\ ex = Constructed.ex
    /\ th = Constructed.th /\ cd = Constructed.cd /\ cl = Constructed.cl
    /\ q = Constructed.q
    /\ cg = Constructed.cg /\ cli = Constructed.cli

\* Each run makes one call (the functions are static and keep no state), and may
\* feed a returned Type's name back to mapBuiltinType.
ExtractTemplateArgs(type_str) ==
    /\ q.op = "none"
    /\ q' = [op |-> "extractTemplateArgs", arg |-> type_str,
             out |-> extractTemplateArgs(type_str), prev |-> nullptr]
    /\ UNCHANGED <<ir, calls, tr, runs, fn, ex, th, cd, cl, cg, cli>>

AnalyzePointerPattern(type) ==
    /\ q.op = "none"
    /\ q' = [op |-> "analyzePointerPattern", arg |-> type,
             out |-> analyzePointerPattern(type), prev |-> nullptr]
    /\ UNCHANGED <<ir, calls, tr, runs, fn, ex, th, cd, cl, cg, cli>>

MapBuiltinType(cpp_type) ==
    /\ q.op = "none"
    /\ q' = [op |-> "mapBuiltinType", arg |-> cpp_type, out |-> mapBuiltinType(cpp_type),
             prev |-> nullptr]
    /\ UNCHANGED <<ir, calls, tr, runs, fn, ex, th, cd, cl, cg, cli>>

\* What the wrapper functions are called on: a heap with one builtin Type, or with an
\* int and a pointer to it, and the Type handed in, absent or any object of the heap.
TypeHeaps ==
    UNION {{[heap |-> h, ptr |-> p] :
                p \in {nullptr} \cup {[kind |-> "shared_ptr", addr |-> a] : a \in DOMAIN h}} :
            h \in {<<mapBuiltinType(n)>> : n \in {"int", "double", "char", "void"}} \cup
                  {mapPointerType(<<mapBuiltinType("int")>>,
                                  [kind |-> "shared_ptr", addr |-> 1]).heap,
                   mapSmartPointer(<<mapBuiltinType("int")>>, "std::unique_ptr<int>",
                                   [kind |-> "shared_ptr", addr |-> 1]).heap,
                   mapSmartPointer(<<NamedType("Class", "Point")>>, "std::shared_ptr<Point>",
                                   [kind |-> "shared_ptr", addr |-> 1]).heap}}

MapPointerType(heap, pointee) ==
    /\ q.op = "none"
    /\ q' = [op |-> "mapPointerType", arg |-> [heap |-> heap, element |-> pointee],
             out |-> mapPointerType(heap, pointee), prev |-> nullptr]
    /\ UNCHANGED <<ir, calls, tr, runs, fn, ex, th, cd, cl, cg, cli>>

MapReferenceType(heap, referred, is_const) ==
    /\ q.op = "none"
    /\ q' = [op |-> "mapReferenceType",
             arg |-> [heap |-> heap, element |-> referred, is_const |-> is_const],
             out |-> mapReferenceType(heap, referred, is_const), prev |-> nullptr]
    /\ UNCHANGED <<ir, calls, tr, runs, fn, ex, th, cd, cl, cg, cli>>

MapArrayType(heap, element, count) ==
    /\ q.op = "none"
    /\ q' = [op |-> "mapArrayType",
             arg |-> [heap |-> heap, element |-> element, count |-> count],
             out |-> mapArrayType(heap, element, count), prev |-> nullptr]
    /\ UNCHANGED <<ir, calls, tr, runs, fn, ex, th, cd, cl, cg, cli>>

MapSmartPointer(heap, smart_ptr_name, element) ==
    /\ q.op = "none"
    /\ q' = [op |-> "mapSmartPointer",
             arg |-> [heap |-> heap, element |-> element, name |-> smart_ptr_name],
             out |-> mapSmartPointer(heap, smart_ptr_name, element), prev |-> nullptr]
    /\ UNCHANGED <<ir, calls, tr, runs, fn, ex, th, cd, cl, cg, cli>>

\* mapBuiltinType applied to the name of the Type the last call returned.
MapReturnedName ==
    /\ q.op = "mapBuiltinType"
    /\ q.out # nullptr
    /\ q.prev = nullptr
    /\ q' = [op |-> "mapBuiltinType", arg |-> q.out.name, out |-> mapBuiltinType(q.out.name),
             prev |-> q.out]
    /\ UNCHANGED <<ir, calls, tr, runs, fn, ex, th, cd, cl, cg, cli>>

\* analyzePointerPattern applied to the Type that mapPointerType or mapSmartPointer
\* just returned.
AnalyzeReturnedType ==
    /\ q.op \in {"mapPointerType", "mapSmartPointer"}
    /\ q' = [op |-> "analyzePointerPattern", arg |-> q.out.heap[q.out.ptr.addr],
             out |-> analyzePointerPattern(q.out.heap[q.out.ptr.addr]), prev |-> q]
    /\ UNCHANGED <<ir, calls, tr, runs, fn, ex, th, cd, cl, cg, cli>>

MapSTLContainer(cpp_type) ==
    /\ q.op = "none"
    /\ q' = [op |-> "mapSTLContainer", arg |-> cpp_type, out |-> mapSTLContainer(cpp_type),
             prev |-> nullptr]
    /\ UNCHANGED <<ir, calls, tr, runs, fn, ex, th, cd, cl, cg, cli>>

\* The Types handed to getRustEquivalent and getGoEquivalent: an absent one, every
\* container kind with no, one or two arguments (absent, int or string), the builtin
\* Types of TypeMapper, a class, and containers as mapSTLContainer returns them.
EquivalentTypes ==
    {nullptr, NamedType("Class", "Point"), mapSTLContainer("std::vector<std::vector<int>>"),
     mapSTLContainer("std::map<string, std::pair<int, double>>")} \cup
    {mapBuiltinType(n) : n \in DOMAIN builtin_map} \cup
    {[Type(k) EXCEPT !.template_args = a] :
        k \in {"StdVector", "StdList", "StdDeque", "StdMap", "StdUnorderedMap", "StdSet",
               "StdUnorderedSet", "StdString", "StdPair", "StdOptional"},
        a \in UNION {[1..n -> {nullptr, IntType, NamedType("StdString", "string")}] :
                        n \in 0..2}}

GetRustEquivalent(type) ==
    /\ q.op = "none"
    /\ q' = [op |-> "getRustEquivalent", arg |-> type, out |-> getRustEquivalent(type),
             prev |-> nullptr]
    /\ UNCHANGED <<ir, calls, tr, runs, fn, ex, th, cd, cl, cg, cli>>

GetGoEquivalent(type) ==
    /\ q.op = "none"
    /\ q' = [op |-> "getGoEquivalent", arg |-> type, out |-> getGoEquivalent(type),
             prev |-> nullptr]
    /\ UNCHANGED <<ir, calls, tr, runs, fn, ex, th, cd, cl, cg, cli>>

GetRustErrorType(exception_type) ==
    /\ q.op = "none"
    /\ q' = [op |-> "getRustErrorType", arg |-> exception_type,
             out |-> getRustErrorType(exception_type), prev |-> nullptr]
    /\ UNCHANGED <<ir, calls, tr, runs, fn, ex, th, cd, cl, cg, cli>>

GetGoErrorType(exception_type) ==
    /\ q.op = "none"
    /\ q' = [op |-> "getGoErrorType", arg |-> exception_type,
             out |-> getGoErrorType(exception_type), prev |-> nullptr]
    /\ UNCHANGED <<ir, calls, tr, runs, fn, ex, th, cd, cl, cg, cli>>

TyNext ==
    \/ \E s \in TypeStrings : ExtractTemplateArgs(s)
    \/ \E t \in PatternTypes : AnalyzePointerPattern(t)
    \/ \E n \in (DOMAIN builtin_map) \cup {"", "Point", "string", "Int", "unsigned", "int "} :
         MapBuiltinType(n)
    \/ MapReturnedName
    \/ \E t \in TypeHeaps : MapPointerType(t.heap, t.ptr)
    \/ \E t \in TypeHeaps : \E c \in BOOLEAN : MapReferenceType(t.heap, t.ptr, c)
    \/ \E t \in TypeHeaps : \E n \in {0, 1, 10, 12} : MapArrayType(t.heap, t.ptr, n)
    \/ \E t \in TypeHeaps : \E n \in {"unique_ptr<int>", "std::shared_ptr<Point>", ""} :
         MapSmartPointer(t.heap, n, t.ptr)
    \/ AnalyzeReturnedType
    \/ \E c \in {"std::vector<int>", "vector<int>", "std::vector< int >", "std::vector<string>",
                  "std::vector<std::string>", "std::map<std::string, int>",
                  "std::map<int, std::vector<double>>", "map<string, vector<pair<int,int>>>",
                  "std::vector<Point>", "std::vector<bitset>", "std::pair<int, Point>",
                  "std::optional<unsigned int>", "std::vector<>", "std::map<int>",
                  "std::string", "string", "std::array<int,3>", "std::set<char>",
                  "std::unordered_map<string, int>", "std::list<std::deque<bool>>",
                  "std::unordered_set<float>", "std::vector<size_t>", "int"} :
         MapSTLContainer(c)
    \/ \E t \in EquivalentTypes : GetRustEquivalent(t)
    \/ \E t \in EquivalentTypes : GetGoEquivalent(t)
    \/ \E t \in (DOMAIN exception_map) \cup {"MyError", "std::system_error", ""} :
         GetRustErrorType(t)
    \/ \E t \in (DOMAIN exception_map) \cup {"MyError", "std::system_error", ""} :
         GetGoErrorType(t)

SpecTypes == TyInit /\ [][TyNext]_vars

\* C8: for a type string with N non-empty arguments separated by the commas at angle
\* bracket depth 0 inside the outermost angle bracket pair, extractTemplateArgs returns
\* exactly these N arguments, trimmed, in order, also when arguments contain nested
\* angle brackets and commas; map<string, vector<pair<int,int>>> yields exactly 2.
C8_TopLevelArgs ==
    /\ (q.op = "extractTemplateArgs" /\ Find(q.arg, "<") # npos
            /\ Find(q.arg, "<") < RFind(q.arg, ">")) =>
        LET inner == Substr(q.arg, Find(q.arg, "<") + 1,
                            RFind(q.arg, ">") - Find(q.arg, "<") - 1)
            Count(c, i) == Cardinality({j \in 0..(i - 1) : At(inner, j) = c})
            cuts == {i \in 0..(Len(inner) - 1) :
                        At(inner, i) = "," /\ Count("<", i) = Count(">", i)}
            bound(k) == IF k = 0 THEN -1
                        ELSE IF k > Cardinality(cuts) THEN Len(inner)
                        ELSE CHOOSE c \in cuts : Cardinality({d \in cuts : d < c}) = k - 1
            pieces == [k \in 1..(Cardinality(cuts) + 1) |->
                        trim(Substr(inner, bound(k - 1) + 1, bound(k) - bound(k - 1) - 1))]
        IN  q.out = SelectSeq(pieces, LAMBDA a : a # "")
    /\ (q.op = "extractTemplateArgs" /\ q.arg = "map<string, vector<pair<int,int>>>") =>
        q.out = <<"string", "vector<pair<int,int>>">>

\* A type string whose second argument has a nested comma yielded two arguments.
C8_Witness ==
    /\ q.op = "extractTemplateArgs"
    /\ q.arg = "map<int,pair<int,int>>"
    /\ q.out = <<"int", "pair<int,int>">>

\* C9: analyzePointerPattern is total: every Type, an absent one included, maps to one
\* of the six ownership patterns; a Pointer maps to UniqueOwnership, SharedOwnership or
\* RawPointer only; a Reference maps to BorrowedReference exactly when is_const holds
\* and to MutableBorrow exactly when it does not; every other kind maps to
\* ValueSemantics.
C9_OwnershipTotal ==
    q.op = "analyzePointerPattern" =>
        /\ q.out \in {"UniqueOwnership", "SharedOwnership", "BorrowedReference",
                      "MutableBorrow", "RawPointer", "ValueSemantics"}
        /\ q.arg.kind = "Pointer" =>
                q.out \in {"UniqueOwnership", "SharedOwnership", "RawPointer"}
        /\ q.arg.kind = "Reference" =>
                /\ q.out = "BorrowedReference" <=> q.arg.is_const
                /\ q.out = "MutableBorrow" <=> ~q.arg.is_const
        /\ q.arg.kind \notin {"Pointer", "Reference"} => q.out = "ValueSemantics"

\* A non-const reference whose name mentions a smart pointer was classified.
C9_Witness ==
    /\ q.op = "analyzePointerPattern"
    /\ q.arg.kind = "Reference"
    /\ ~q.arg.is_const
    /\ q.arg.name = "std::unique_ptr<int>"
    /\ q.out = "MutableBorrow"

\* C10: for every name in the builtin table, mapBuiltinType returns a Type with that
\* name and the table's size for it, so mapBuiltinType of the returned Type's name
\* yields an equal Type; for every other name it yields no result.
C10_BuiltinRoundTrip ==
    q.op = "mapBuiltinType" =>
        /\ q.arg \in DOMAIN builtin_map =>
                /\ q.out # nullptr
                /\ q.out.name = q.arg
                /\ q.arg \in DOMAIN size_map
                /\ q.out.size_bytes = size_map[q.arg]
                /\ mapBuiltinType(q.out.name) = q.out
        /\ q.arg \notin DOMAIN builtin_map => q.out = nullptr
        /\ q.prev # nullptr => q.out = q.prev

\* The name of a returned Type was mapped again and gave an equal 8-byte Type.
C10_Witness ==
    /\ q.op = "mapBuiltinType"
    /\ q.arg = "unsigned long long"
    /\ q.prev # nullptr
    /\ q.out = q.prev
    /\ q.out.size_bytes = 8

\* C11: mapPointerType, mapReferenceType, mapArrayType and mapSmartPointer each
\* return a new Type (an object that was not there before the call) of kind Pointer,
\* Reference, Array and Pointer respectively, whose element_type is the very pointer
\* handed in, and every object alive before the call is left as it was; the result of
\* mapReferenceType carries the given is_const, and the size_bytes of mapArrayType's
\* result is the element's size_bytes times the count.
C11_WrappersShareElement ==
    q.op \in {"mapPointerType", "mapReferenceType", "mapArrayType", "mapSmartPointer"} =>
        LET before == q.arg.heap
            after  == q.out.heap
            result == q.out.ptr
        IN  /\ result # nullptr
            /\ result.addr \in (DOMAIN after) \ (DOMAIN before)
            /\ \A a \in DOMAIN before : after[a] = before[a]
            /\ after[result.addr].kind =
                    (IF q.op = "mapReferenceType" THEN "Reference"
                     ELSE IF q.op = "mapArrayType" THEN "Array" ELSE "Pointer")
            /\ after[result.addr].element_type = q.arg.element
            /\ q.op = "mapReferenceType" => after[result.addr].is_const = q.arg.is_const
            /\ (q.op = "mapArrayType" /\ q.arg.element # nullptr) =>
                    after[result.addr].size_bytes =
                        before[q.arg.element.addr].size_bytes * q.arg.count

\* testArrayTypeMapping: ten ints gave a 40-byte array that shares the int Type.
C11_Witness ==
    /\ q.op = "mapArrayType"
    /\ q.arg.heap = <<mapBuiltinType("int")>>
    /\ q.arg.count = 10
    /\ q.out.ptr = [kind |-> "shared_ptr", addr |-> 2]
    /\ q.out.heap[2].element_type = [kind |-> "shared_ptr", addr |-> 1]
    /\ q.out.heap[2].size_bytes = 40
    /\ q.out.heap[2].name = "int[10]"

\* C21: for every container type expression whose container name is recognized,
\* mapSTLContainer returns a Type whose template_args has exactly one entry per
\* extracted top-level argument, in order, each the mapping of that argument: a
\* container Type, a builtin Type or, for any other name, a Class Type carrying that
\* name; no argument is dropped.
C21_EveryArgumentMapped ==
    (q.op = "mapSTLContainer"
        /\ getSTLContainerKind(extractContainerName(q.arg)) # "Template") =>
        /\ q.out # nullptr
        /\ Len(q.out.template_args) = Len(extractTemplateArgs(q.arg))
        /\ \A i \in 1..Len(q.out.template_args) :
                \/ q.out.template_args[i].kind \in
                        {"StdVector", "StdList", "StdDeque", "StdMap", "StdUnorderedMap",
                         "StdSet", "StdUnorderedSet", "StdString", "StdPair", "StdOptional",
                         "Integer", "Float", "Bool", "Void"}
                \/ /\ q.out.template_args[i].kind = "Class"
                   /\ q.out.template_args[i].name = extractTemplateArgs(q.arg)[i]

\* C22: for a container Type with fewer template arguments than its kind needs (none
\* for a one-argument container, fewer than two for a map or pair) and for an absent
\* Type, getRustEquivalent and getGoEquivalent return a complete type expression: the
\* one the kind gives when each of its arguments is absent, with the placeholder "()",
\* respectively "interface{}", once per argument the kind needs.
C22_PlaceholdersForMissing ==
    q.op \in {"getRustEquivalent", "getGoEquivalent"} =>
        LET hole == IF q.op = "getRustEquivalent" THEN "()" ELSE "interface{}"
            needed == IF q.arg.kind \in {"StdMap", "StdUnorderedMap", "StdPair"} THEN 2 ELSE 1
            absent == [q.arg EXCEPT !.template_args = [i \in 1..needed |-> nullptr]]
        IN  /\ q.arg = nullptr => q.out = hole
            /\ (q.arg.kind \in {"StdVector", "StdList", "StdDeque", "StdMap",
                                "StdUnorderedMap", "StdSet", "StdUnorderedSet", "StdPair",
                                "StdOptional"}
                    /\ Len(q.arg.template_args) < needed) =>
                /\ q.out = (IF q.op = "getRustEquivalent" THEN getRustEquivalent(absent)
                            ELSE getGoEquivalent(absent))
                /\ Cardinality({i \in 0..(Len(q.out) - 1) : OccursAt(q.out, hole, i)})
                        = needed

\* A map with its key Type only was rendered with both placeholders.
C22_Witness ==
    /\ q.op = "getRustEquivalent"
    /\ q.arg.kind = "StdMap"
    /\ q.arg.template_args = <<IntType>>
    /\ q.out = "std::collections::BTreeMap<(), ()>"

\* C28: for every builtin integer type name of TypeMapper's table, getRustEquivalent of
\* the Integer Type of that name keeps signedness and width: an unsigned name (uint8_t,
\* uint16_t, uint32_t and uint64_t included) gives a u-prefixed type, a signed name an
\* i-prefixed type, of 8 times the table's size_bytes bits; size_t gives usize.
C28_SignAndWidthKept ==
    (q.op = "getRustEquivalent" /\ q.arg.kind = "Integer"
        /\ q.arg.name \in DOMAIN builtin_map) =>
        q.out = (IF q.arg.name = "size_t" THEN "usize"
                 ELSE (IF At(q.arg.name, 0) = "u" THEN "u" ELSE "i")
                        \o to_string(8 * size_map[q.arg.name]))

\* C23: for every exception type name in the exception lookup table, getRustErrorType
\* returns the boxed generic error trait object type, except for std::invalid_argument,
\* where it returns the I/O error type; getGoErrorType returns "error" for every
\* exception type name, known or unknown.
C23_ErrorTypes ==
    /\ (q.op = "getRustErrorType" /\ q.arg \in DOMAIN exception_map) =>
            q.out = (IF q.arg = "std::invalid_argument" THEN "std::io::Error"
                     ELSE "Box<dyn std::error::Error>")
    /\ q.op = "getGoErrorType" => q.out = "error"

\* C27: every Type produced by mapPointerType, whatever its pointee, is classified
\* RawPointer by analyzePointerPattern; only a Type produced by mapSmartPointer is
\* classified UniqueOwnership or SharedOwnership.
C27_RawPointerClassified ==
    (q.op = "analyzePointerPattern" /\ q.prev # nullptr) =>
        /\ q.prev.op = "mapPointerType" => q.out = "RawPointer"
        /\ q.out \in {"UniqueOwnership", "SharedOwnership"} => q.prev.op = "mapSmartPointer"

(***************************************************************************)
(* SpecCodegen: generators of the Rust target working on one Program.      *)
(***************************************************************************)
\* The class of testRustCodeGeneration.
test_class ==
    [name |-> "TestClass", is_struct |-> FALSE,
     fields |-> << [name |-> "value", type |-> IntType] >>,
     methods |-> << [name |-> "getValue", is_const |-> TRUE, return_type |-> IntType] >>]

CgInit ==
    /\ \E cs \in UNION {[1..n -> {test_class, point_class, ClassDecl("Empty")}] :
                            n \in 0..2} :
         cg = [Constructed.cg EXCEPT
                 !.program = IF cs = <<>> THEN EmptyIR
                             ELSE IF Len(cs) = 1 THEN addClass(EmptyIR, cs[1])
                             ELSE addClass(addClass(EmptyIR, cs[1]), cs[2])]
    /\ ir = Constructed.ir /\ calls = Constructed.calls /\ tr = Constructed.tr
    /\ runs = Constructed.runs /\ fn = Constructed.fn /\ ex = Constructed.ex
    /\ th = Constructed.th /\ cd = Constructed.cd /\ cl = Constructed.cl
    /\ q = Constructed.q /\ cli = Constructed.cli

\* std::string code = rust_gen.generate(ir), on the generator at hand.
Generate ==
    /\ Len(cg.outs) < MaxRuns
    /\ LET res == generate(cg.gen, cg.program)
       IN  cg' = [cg EXCEPT !.gen = res.gen,
                            !.outs = Append(@, [text |-> res.ret, by |-> cg.made])]
    /\ UNCHANGED <<ir, calls, tr, runs, fn, ex, th, cd, cl, q, cli>>

\* RustCodeGenerator rust_gen: another generator object takes over.
NewGenerator ==
    /\ cg.made < MaxBatch
    /\ cg' = [cg EXCEPT !.gen = CodeGenerator, !.made = @ + 1]
    /\ UNCHANGED <<ir, calls, tr, runs, fn, ex, th, cd, cl, q, cli>>

CgNext == Generate \/ NewGenerator

SpecCodegen == CgInit /\ [][CgNext]_vars

RECURSIVE stoiFrom(_, _, _)
stoiFrom(str, i, acc) ==
    IF i < Len(str) /\ At(str, i) \in {"0", "1", "2", "3", "4", "5", "6", "7", "8", "9"}
    THEN stoiFrom(str, i + 1,
                  10 * acc + (CHOOSE d \in 0..9 : to_string(d) = At(str, i)))
    ELSE [ok |-> TRUE, value |-> acc, end |-> i]

stoi(str) ==
    LET first == FindFirstNotOf(str, {" ", "\t", "\n"})
        start == IF first = npos THEN Len(str) ELSE first
        signed == start < Len(str) /\ At(str, start) \in {"+", "-"}
        from == IF signed THEN start + 1 ELSE start
        digits == stoiFrom(str, from, 0)
    IN  IF digits.end = from THEN [ok |-> FALSE, value |-> 0]
        ELSE [ok |-> TRUE,
              value |-> IF signed /\ At(str, start) = "-" THEN -digits.value
                        ELSE digits.value]

\* The argument loop of main over argv[i..argc-1] (argv is argv[1..] here).  The
\* result tells whether main goes on after the loop or has ended, and how.
RECURSIVE parseCommandLine(_, _, _, _)
parseCommandLine(argv, i, options, input_file) ==
    LET ends(ret, err) == [ended |-> "returned", ret |-> ret, err |-> err,
                           options |-> options, input_file |-> input_file]
        more == i + 1 <= Len(argv)
        arg == argv[i]
    IN  IF i > Len(argv)
        THEN [ended |-> "no", ret |-> 0, err |-> "", options |-> options,
              input_file |-> input_file]
        ELSE IF arg \in {"-h", "--help", "-v", "--version"} THEN ends(0, "")
        ELSE IF arg \in {"-i", "--input"} THEN
            IF more THEN parseCommandLine(argv, i + 2, options, argv[i + 1])
            ELSE ends(1, "Error: --input requires a file path")
        ELSE IF arg \in {"-o", "--output"} THEN
            IF more
            THEN parseCommandLine(argv, i + 2,
                                  [options EXCEPT !.output_path = argv[i + 1]], input_file)
            ELSE ends(1, "Error: --output requires a file path")
        ELSE IF arg \in {"-t", "--target"} THEN
            IF ~more THEN ends(1, "Error: --target requires a language (rust|go)")
            ELSE IF argv[i + 1] = "rust"
            THEN parseCommandLine(argv, i + 2, [options EXCEPT !.target = "Rust"],
                                  input_file)
            ELSE IF argv[i + 1] = "go"
            THEN parseCommandLine(argv, i + 2, [options EXCEPT !.target = "Go"],
                                  input_file)
            ELSE ends(1, "Error: Unknown target language: " \o argv[i + 1])
        ELSE IF arg \in {"-O", "--opt-level"} THEN
            IF ~more THEN ends(1, "Error: --opt-level requires a number")
            ELSE IF ~stoi(argv[i + 1]).ok
            THEN [ended |-> "terminated", ret |-> 0, err |-> "std::invalid_argument",
                  options |-> options, input_file |-> input_file]
            ELSE IF stoi(argv[i + 1]).value < 0 \/ stoi(argv[i + 1]).value > 3
            THEN [ended |-> "returned", ret |-> 1,
                  err |-> "Error: Optimization level must be 0-3",
                  options |-> [options EXCEPT
                                 !.optimization_level = stoi(argv[i + 1]).value],
                  input_file |-> input_file]
            ELSE parseCommandLine(argv, i + 2,
                    [options EXCEPT !.optimization_level = stoi(argv[i + 1]).value],
                    input_file)
        ELSE IF arg = "--no-safety-checks"
        THEN parseCommandLine(argv, i + 1,
                              [options EXCEPT !.enable_safety_checks = FALSE], input_file)
        ELSE IF arg = "--no-comments"
        THEN parseCommandLine(argv, i + 1,
                              [options EXCEPT !.preserve_comments = FALSE], input_file)
        ELSE IF arg = "--gen-tests"
        THEN parseCommandLine(argv, i + 1,
                              [options EXCEPT !.generate_tests = TRUE], input_file)
        ELSE ends(1, "Error: Unknown option: " \o arg)

\* main after the Transpiler has run: the exit code follows transpile's result.
main_transpiled(argv, options, done) ==
    [cli |-> [argv |-> argv, ended |-> "returned", ret |-> IF done.ret THEN 0 ELSE 1,
              err |-> IF done.ret THEN "" ELSE done.tr.last_error_, options |-> options,
              transpiled |-> TRUE],
     tr |-> done.tr, runs |-> <<done.run>>]

\* main after the argument loop: input validation, the output file name made from
\* the input's when none was given, then the Transpiler.
main_parsed(argv, env, parsed) ==
    LET input_file == parsed.input_file
        dot_pos == RFind(input_file, ".")
        extension == IF parsed.options.target = "Rust" THEN ".rs" ELSE ".go"
        options == IF parsed.options.output_path # "" THEN parsed.options
                   ELSE [parsed.options EXCEPT !.output_path =
                            IF dot_pos # npos
                            THEN Substr(input_file, 0, dot_pos) \o extension
                            ELSE input_file \o extension]
        end(ended, ret, err) ==
            [cli |-> [argv |-> argv, ended |-> ended, ret |-> ret, err |-> err,
                      options |-> parsed.options, transpiled |-> FALSE],
             tr |-> nullptr, runs |-> <<>>]
    IN  IF argv = <<>> THEN end("returned", 1, "")
        ELSE IF parsed.ended # "no" THEN end(parsed.ended, parsed.ret, parsed.err)
        ELSE IF input_file = "" THEN end("returned", 1, "Error: No input file specified")
        ELSE main_transpiled(argv, options,
                             transpile(Transpiler(options), input_file, env))

\* main(argc, argv) with argv[1..] = argv, the files being as env says.  The result
\* carries the process's end and the Transpiler it made, if it came to make one.
main(argv, env) ==
    main_parsed(argv, env, parseCommandLine(argv, 1, TranspilerOptions, ""))

\* The process is started with at most MaxArgs arguments after the program name.
MainInit ==
    /\ \E argv \in UNION {[1..n -> {"-i", "a.cpp", "-O", "-O2", "2", "7", "-t", "go", "-h"}] :
                            n \in 0..MaxArgs} :
         cli = [Constructed.cli EXCEPT !.argv = argv]
    /\ ir = Constructed.ir /\ calls = Constructed.calls /\ tr = Constructed.tr
    /\ runs = Constructed.runs /\ fn = Constructed.fn /\ ex = Constructed.ex
    /\ th = Constructed.th /\ cd = Constructed.cd /\ cl = Constructed.cl
    /\ q = Constructed.q /\ cg = Constructed.cg

\* The process runs from start to end; tr is the Transpiler it made, if any.
Main(env) ==
    /\ cli.ended = "no"
    /\ LET res == main(cli.argv, env)
       IN  /\ cli' = res.cli
           /\ tr' = IF res.tr = nullptr THEN tr ELSE res.tr
           /\ runs' = res.runs
    /\ UNCHANGED <<ir, calls, fn, ex, th, cd, cl, q, cg>>

MainNext == \E env \in Envs : Main(env)

SpecMain == MainInit /\ [][MainNext]_vars

\* C13: the optimization level written attached to the flag, -O<N> with N in 0..3,
\* is accepted: given together with a valid -i input, the run sets optimization_level
\* to N and goes on to transpile instead of ending with an unknown-option error.
C13_AttachedOptLevel ==
    (cli.ended # "no" /\ cli.argv \in {<<"-i", "a.cpp", "-O2">>, <<"-O2", "-i", "a.cpp">>}) =>
        /\ cli.options.optimization_level = 2
        /\ cli.transpiled
        /\ cli.err # "Error: Unknown option: -O2"

=============================================================================
